---- MODULE Spec2Model ----
(***************************************************************************)
(* Model of the agent Runner (runner.go), its guardrail pipeline and the   *)
(* two session backends (session/memory.go, session/file.go).              *)
(***************************************************************************)
EXTENDS Integers, Sequences, FiniteSets, TLC

(***************************************************************************)
(* Bounds of the model.                                                    *)
(***************************************************************************)
MaxRuns == 2
MaxCalls == 2
MaxStoreOps == 3
MaxInstances == 2
MaxFaults == 1
MaxHostLen == 3

(***************************************************************************)
(* Small input sets.                                                       *)
(***************************************************************************)
SessionIDs == {"s1", "s2"}
Roots == {"d1"}

(***************************************************************************)
(* A tool-call identifier is its first IDLimit characters (head), the      *)
(* characters after them (tail) and its length.                            *)
(***************************************************************************)
IDLimit == 40

ShortID == [head |-> "call_1", tail |-> "", len |-> 6]

LongID == [head |-> "call_2", tail |-> "x", len |-> 41]

NoID == [head |-> "", tail |-> "", len |-> 0]

(***************************************************************************)
(* Messages: openai.ChatCompletionMessageParamUnion values.                *)
(***************************************************************************)
UserMessage(c) ==
  [role |-> "user", content |-> c, refusal |-> "", toolCalls |-> <<>>, toolCallID |-> NoID]

ToolMessage(c, id) ==
  [role |-> "tool", content |-> c, refusal |-> "", toolCalls |-> <<>>, toolCallID |-> id]

CallerMessageLists ==
  {<<>>, <<UserMessage("u1")>>, <<UserMessage("u2"), UserMessage("u1")>>}

(***************************************************************************)
(* Errors.  A Go type assertion on an error succeeds only for the very     *)
(* type named, so the package declaring an error type is part of its       *)
(* identity.                                                               *)
(***************************************************************************)
NoErr == [type |-> "nil"]

SessionNotFoundError(id) == [type |-> "session.NotFoundError", SessionID |-> id]

StorageError(id, op) == [type |-> "session.StorageError", SessionID |-> id, Operation |-> op]

IsNil(e) == e.type = "nil"

(***************************************************************************)
(* MemorySession: sessions is the map of the store; an absent key is an    *)
(* id outside its domain.                                                  *)
(***************************************************************************)
MemoryGet(s, id) ==
  IF id \notin DOMAIN s
    THEN [messages |-> <<>>, err |-> SessionNotFoundError(id)]
    ELSE [messages |-> s[id], err |-> NoErr]

MemoryAppendReplace(s, id, msgs) ==
  [store |-> [x \in (DOMAIN s) \cup {id} |-> IF x = id THEN msgs ELSE s[x]], err |-> NoErr]

MemoryAppend(s, id, msgs) ==
  LET created == IF id \notin DOMAIN s
                   THEN [x \in (DOMAIN s) \cup {id} |-> IF x = id THEN <<>> ELSE s[x]]
                   ELSE s
  IN [store |-> [created EXCEPT ![id] = created[id] \o msgs], err |-> NoErr]

MemoryClearRemoves(s, id) ==
  IF id \notin DOMAIN s
    THEN [store |-> s, err |-> SessionNotFoundError(id)]
    ELSE [store |-> [x \in (DOMAIN s) \ {id} |-> s[x]], err |-> NoErr]

MemoryClear(s, id) ==
  IF id \notin DOMAIN s
    THEN [store |-> s, err |-> SessionNotFoundError(id)]
    ELSE [store |-> [s EXCEPT ![id] = <<>>], err |-> NoErr]

MemoryDelete(s, id) ==
  IF id \notin DOMAIN s
    THEN [store |-> s, err |-> SessionNotFoundError(id)]
    ELSE [store |-> [x \in (DOMAIN s) \ {id} |-> s[x]], err |-> NoErr]

(***************************************************************************)
(* FileSession.  A Go slice is nil or a (possibly empty) list; encoding    *)
(* json distinguishes the two ("null" against "[]").                       *)
(***************************************************************************)
NilSlice == [isNil |-> TRUE, items |-> <<>>]

Slice(items) == [isNil |-> FALSE, items |-> items]

GoAppendFront(sl, msgs) ==
  IF sl.isNil /\ msgs = <<>> THEN NilSlice ELSE Slice(msgs \o sl.items)

GoAppend(sl, msgs) ==
  IF sl.isNil /\ msgs = <<>> THEN NilSlice ELSE Slice(sl.items \o msgs)

EncodeMessage(m) == [json |-> m]

DecodeMessage(j) == j.json

MarshalIndent(sl) ==
  IF sl.isNil
    THEN [kind |-> "null", elems |-> <<>>]
    ELSE [kind |-> "array", elems |-> [i \in 1..Len(sl.items) |-> EncodeMessage(sl.items[i])]]

Truncated(data) == [kind |-> "partial", elems |-> <<>>]

Unmarshal(data) ==
  CASE data.kind = "null" -> [ok |-> TRUE, slice |-> NilSlice]
    [] data.kind = "array" ->
         [ok |-> TRUE, slice |-> Slice([i \in 1..Len(data.elems) |-> DecodeMessage(data.elems[i])])]
    [] OTHER -> [ok |-> FALSE, slice |-> NilSlice]

\* The path elements of a session identifier, separated by "/" in it.
Elements(id) ==
  CASE id = "./s1" -> <<".", "s1">>
    [] id = "s2/../s1" -> <<"s2", "..", "s1">>
    [] OTHER -> <<id>>

\* filepath.Clean on the directory elements of a path: "." is dropped and
\* ".." removes the element before it.
RECURSIVE Clean(_, _, _)
Clean(elems, i, kept) ==
  IF i > Len(elems) THEN kept
  ELSE CASE elems[i] = "." -> Clean(elems, i + 1, kept)
         [] elems[i] = ".." /\ Len(kept) > 0 /\ kept[Len(kept)] # ".." ->
              Clean(elems, i + 1, SubSeq(kept, 1, Len(kept) - 1))
         [] OTHER -> Clean(elems, i + 1, Append(kept, elems[i]))

RECURSIVE JoinElements(_)
JoinElements(elems) ==
  IF Len(elems) = 1 THEN elems[1]
  ELSE elems[1] \o "/" \o JoinElements(Tail(elems))

\* The name, under the base directory and without the extension, of the file
\* filepath.Join(basePath, sessionID+".json") names.
FileName(id) ==
  LET elems == Elements(id)
  IN JoinElements(Clean(SubSeq(elems, 1, Len(elems) - 1), 1, <<>>)
                  \o <<elems[Len(elems)]>>)

sessionPath(f, id) == [dir |-> f.basePath, name |-> FileName(id), ext |-> ".json"]

sessionFileAsTemp(f, id) == sessionPath(f, id)

tempPath(f, id) == [dir |-> f.basePath, name |-> FileName(id), ext |-> ".json.tmp"]

WriteFile(fs, path, data) ==
  [p \in (DOMAIN fs) \cup {path} |-> IF p = path THEN data ELSE fs[p]]

Remove(fs, path) == [p \in (DOMAIN fs) \ {path} |-> fs[p]]

Rename(fs, from, to) ==
  [p \in ((DOMAIN fs) \ {from}) \cup {to} |-> IF p = to THEN fs[from] ELSE fs[p]]

\* os.MkdirAll creates the directory unless it exists; a directory that
\* exists is kept with its files.
DirEntry(basePath) == [dir |-> basePath, name |-> "", ext |-> ""]

MkdirAllFresh(fs, basePath) ==
  [p \in {DirEntry(basePath)} |-> [kind |-> "dir", elems |-> <<>>]]

MkdirAll(fs, basePath) ==
  IF DirEntry(basePath) \in DOMAIN fs
    THEN fs
    ELSE WriteFile(fs, DirEntry(basePath), [kind |-> "dir", elems |-> <<>>])

writeInPlace(fs, f, id, sl, fault) ==
  LET data == MarshalIndent(sl)
      path == sessionPath(f, id)
  IN IF fault = "write"
       THEN [fs |-> WriteFile(fs, path, Truncated(data)), err |-> StorageError(id, "write")]
       ELSE [fs |-> WriteFile(fs, path, data), err |-> NoErr]

writeAtomic(fs, f, id, sl, fault) ==
  LET data == MarshalIndent(sl)
      tmp == tempPath(f, id)
  IN CASE fault = "marshal" ->
            [fs |-> fs, err |-> StorageError(id, "marshal")]
       [] fault = "write" ->
            [fs |-> WriteFile(fs, tmp, Truncated(data)), err |-> StorageError(id, "write")]
       [] fault = "rename" ->
            [fs |-> Remove(WriteFile(fs, tmp, data), tmp), err |-> StorageError(id, "rename")]
       [] OTHER ->
            [fs |-> Rename(WriteFile(fs, tmp, data), tmp, sessionPath(f, id)), err |-> NoErr]

FileGet(fs, f, id, fault) ==
  LET path == sessionPath(f, id)
  IN IF path \notin DOMAIN fs
       THEN [messages |-> <<>>, err |-> SessionNotFoundError(id)]
       ELSE IF fault = "read"
         THEN [messages |-> <<>>, err |-> StorageError(id, "read")]
         ELSE LET u == Unmarshal(fs[path])
              IN IF ~u.ok
                   THEN [messages |-> <<>>, err |-> StorageError(id, "unmarshal")]
                   ELSE [messages |-> u.slice.items, err |-> NoErr]

FileAppend(fs, f, id, msgs, fault) ==
  LET path == sessionPath(f, id)
  IN IF path \in DOMAIN fs /\ fault = "read"
       THEN [fs |-> fs, err |-> StorageError(id, "read")]
       ELSE LET u == IF path \in DOMAIN fs THEN Unmarshal(fs[path])
                                           ELSE [ok |-> TRUE, slice |-> NilSlice]
            IN IF ~u.ok
                 THEN [fs |-> fs, err |-> StorageError(id, "unmarshal")]
                 ELSE writeAtomic(fs, f, id, GoAppend(u.slice, msgs), fault)

FileClear(fs, f, id, fault) ==
  IF sessionPath(f, id) \notin DOMAIN fs
    THEN [fs |-> fs, err |-> SessionNotFoundError(id)]
    ELSE writeAtomic(fs, f, id, Slice(<<>>), fault)

FileDelete(fs, f, id, fault) ==
  LET path == sessionPath(f, id)
  IN IF path \notin DOMAIN fs
       THEN [fs |-> fs, err |-> SessionNotFoundError(id)]
       ELSE IF fault = "remove"
         THEN [fs |-> fs, err |-> StorageError(id, "delete")]
         ELSE [fs |-> Remove(fs, path), err |-> NoErr]

(***************************************************************************)
(* Agents, tools and guardrails of the runs.                               *)
(***************************************************************************)
AgentNames == {"A", "B"}

\* "C" is an agent as NewAgent leaves it: no tools, guardrails or hooks; "D"
\* has two tools that hand off, to different agents; "E" is as "C" but for
\* its response format.
Tools(a) ==
  CASE a = "A" -> <<"t1", "toB", "t0">>
    [] a = "B" -> <<"toA">>
    [] a = "D" -> <<"toB", "toA">>
    [] OTHER -> <<>>

Model(a) == IF a = "B" THEN "gpt-4o-mini" ELSE "gpt-4o"

Instructions(a) == "You are " \o a

InputGuardrails(a) == IF a = "A" THEN <<"g1", "g2">> ELSE <<>>

OutputGuardrails(a) ==
  CASE a = "A" -> <<"o1">>
    [] a = "B" -> <<"oB">>
    [] OTHER -> <<>>

HasOnBeforeRun(a) == a = "A"

HasOnAfterRun(a) == a = "A"

\* The Callback field of a tool that has none.
NilCallback == [kind |-> "nil", val |-> ""]

\* What a tool callback may return: a value, an error or an Agent.
CallbackResults(name) ==
  CASE name = "t1" -> {[kind |-> "value", val |-> "ok"], [kind |-> "error", val |-> "boom"]}
    [] name = "t0" -> {NilCallback}
    [] name = "toB" -> {[kind |-> "agent", val |-> "B"]}
    [] OTHER -> {[kind |-> "agent", val |-> "A"]}

\* A nil pointer of type Agent returned by a callback.
NilAgent == [kind |-> "agent", val |-> "nil"]

AllCallbackResults ==
  UNION {CallbackResults(n) : n \in {"t1", "t0", "toA", "toB"}} \cup {NilAgent}

\* What a guardrail function may return: a Result, or an error.
GuardrailOutcomes ==
  {[failed |-> FALSE, Passed |-> TRUE, TripwireTriggered |-> FALSE, Message |-> ""],
   [failed |-> FALSE, Passed |-> FALSE, TripwireTriggered |-> FALSE, Message |-> "advice"],
   [failed |-> FALSE, Passed |-> FALSE, TripwireTriggered |-> TRUE, Message |-> "blocked"],
   [failed |-> FALSE, Passed |-> TRUE, TripwireTriggered |-> TRUE, Message |-> ""],
   [failed |-> TRUE, Passed |-> FALSE, TripwireTriggered |-> FALSE, Message |-> ""]}

\* A guardrail function returning a nil Result and a nil error.
NilGuardrailResult == [failed |-> FALSE, isNil |-> TRUE]

(***************************************************************************)
(* Run configurations.  NilConfig is the omitted config.                   *)
(***************************************************************************)
DefaultMaxTurns == 10

DefaultTimeout == 5

NilConfig == [isNil |-> TRUE, MaxTurns |-> 0, Timeout |-> 0]

DefaultRunConfig == [isNil |-> FALSE, MaxTurns |-> DefaultMaxTurns, Timeout |-> DefaultTimeout]

Configs ==
  {NilConfig,
   [isNil |-> FALSE, MaxTurns |-> 1, Timeout |-> 0],
   [isNil |-> FALSE, MaxTurns |-> 2, Timeout |-> 0]}

(***************************************************************************)
(* Replies of the completion service.                                      *)
(***************************************************************************)
KeepID(id) == id

\* "if len(id) > 40 { id = id[:40] }"
TruncateID(id) ==
  IF id.len > IDLimit THEN [head |-> id.head, tail |-> "", len |-> IDLimit] ELSE id

ToolCallRequest(id, name, args) == [ID |-> id, Name |-> name, Arguments |-> args]

ToolCallLists ==
  {<<>>,
   <<ToolCallRequest(ShortID, "t1", "{}")>>,
   <<ToolCallRequest(LongID, "toA", "")>>,
   <<ToolCallRequest(ShortID, "t0", "{}")>>,
   <<ToolCallRequest(ShortID, "toB", "{}"), ToolCallRequest(LongID, "t1", "{")>>}

Usage(p, c, t) == [PromptTokens |-> p, CompletionTokens |-> c, TotalTokens |-> t]

UsageReports == {Usage(10, 5, 15), Usage(0, 8, 8)}

Message(content, refusal, calls) ==
  [Content |-> content, Refusal |-> refusal, ToolCalls |-> calls]

ReplyMessages ==
  {Message("hi", "", <<>>), Message("", "no", <<>>), Message("", "", <<>>)}
  \cup {Message("", "", tc) : tc \in ToolCallLists \ {<<>>}}

NoMessage == Message("", "", <<>>)

\* The completions the service may return: every reply with a full usage
\* report, and a final reply whose report has no prompt tokens.
Completions ==
  {[Message |-> m, Usage |-> Usage(10, 5, 15)] : m \in ReplyMessages}
  \cup {[Message |-> Message("hi", "", <<>>), Usage |-> u] : u \in UsageReports}

\* A completion whose Choices is empty.
NoChoices == [Message |-> NoMessage, Usage |-> Usage(10, 5, 15), Choices |-> 0]

\* openai.ChatCompletionMessage.ToParam
ToParam(m) ==
  [role |-> "assistant", content |-> m.Content, refusal |-> m.Refusal,
   toolCalls |-> m.ToolCalls, toolCallID |-> NoID]

(***************************************************************************)
(* State.                                                                  *)
(*   sessions, files, fsInstances : the MemorySession map, the files of    *)
(*     the session directories and the FileSession instances constructed   *)
(*   backend : the backend the caller uses                                 *)
(*   pc : position of Runner.Run; agent .. sessionID : its parameters      *)
(*   ctxErr : ctx.Err() of the run's context                               *)
(*   currentAgent .. turnCount : the locals of Run                         *)
(*   result, err : what Run returned                                       *)
(*   events, verdicts, calls, supplied, loaded, storedBefore :             *)
(*     observations of the run (the calls made on collaborators, what the  *)
(*     guardrails just evaluated returned, the usage each completion       *)
(*     reported, the messages the caller passed, the list Get returned,    *)
(*     the stored list at the start of the run)                            *)
(*   opLog : the session operations the caller issued, with their outcomes *)
(*   nRuns, nCalls, nFaults : counters bounding the exploration            *)
(*   mem, call, ret : for a function exercised on its own, the memory its  *)
(*     arguments live in, the call made and what it returned               *)
(*   goroutines, mu : the session operations that run concurrently on one  *)
(*     store, each with its position and locals, and the store's RWMutex   *)
(*   contextArg : the context-variable store the caller passed to Run      *)
(*   contextParams : the context-variable store of the run (which store it *)
(*     is and the writes made to it); ctxLog : what each tool callback     *)
(*     called in the run was passed and read                               *)
(*   ctxDone : the error the context of the run holds, nil until the caller *)
(*     cancels it or its deadline passes                                   *)
(*   setup : the agents and context-variable stores callers start runs     *)
(*     with, and whether collaborators may return malformed values         *)
(***************************************************************************)
VARIABLES sessions, files, fsInstances, backend,
          pc, agent, messages, config, session, sessionID, ctxErr,
          currentAgent, history, usage, steps, lastMessage, turnCount,
          result, err,
          events, verdicts, calls, supplied, loaded, storedBefore,
          opLog, nRuns, nCalls, nFaults,
          mem, call, ret,
          goroutines, mu,
          contextArg, contextParams, ctxLog, setup, ctxDone

storeVars == <<sessions, files, fsInstances, backend>>

paramVars == <<agent, messages, config, session, sessionID>>

localVars == <<currentAgent, history, usage, steps, lastMessage, turnCount>>

retVars == <<result, err>>

obsVars == <<events, verdicts, calls, supplied, loaded, storedBefore>>

countVars == <<nRuns, nCalls, nFaults>>

configVars == <<mem, call, ret>>

threadVars == <<goroutines, mu>>

unitVars == <<configVars, threadVars>>

ctxVars == <<contextArg, contextParams, ctxLog>>

envVars == <<setup, ctxDone>>

vars ==
  <<storeVars, pc, paramVars, ctxErr, localVars, retVars, obsVars, opLog, countVars, unitVars,
    ctxVars, envVars>>

EmptyMap == [x \in {} |-> <<>>]

\* A ContextVariables value: which map it is and the keys written to it, in
\* the order of the writes.  NilContext is the nil map a caller may pass,
\* CallerContext a map the caller made and wrote to.
NilContext == [store |-> "nil", vars |-> <<>>]

CallerContext == [store |-> "caller", vars |-> <<"caller">>]

AlwaysFresh(ctx) == [store |-> "run", vars |-> <<>>]

\* "if contextParams == nil { contextParams = make(ContextVariables) }"
ContextFor(ctx) == IF ctx = NilContext THEN [store |-> "run", vars |-> <<>>] ELSE ctx

\* Runs of agents with tools, without a context-variable store, against
\* collaborators that return well-formed values.
PlainSetup ==
  [agents |-> AgentNames, contexts |-> {NilContext}, malformed |-> FALSE, ids |-> SessionIDs,
   cancels |-> FALSE, replies |-> {}]

\* A reply that asks for two tools that hand off.
TwoHandoffs ==
  Message("", "", <<ToolCallRequest(ShortID, "toB", "{}"), ToolCallRequest(ShortID, "toA", "{}")>>)

\* Runs of an agent with tools and of one without, with and without a
\* context-variable store, against collaborators that may also return a
\* completion without choices, a nil Agent or a nil guardrail Result, on a
\* context that may be cancelled before Run is called and may be done at the
\* top of a turn that has reached the turn limit.
EdgeSetup ==
  [agents |-> {"A", "C", "D", "E"}, contexts |-> {NilContext, CallerContext}, malformed |-> TRUE,
   ids |-> SessionIDs, cancels |-> TRUE, replies |-> {TwoHandoffs}]

\* Session operations of a caller whose identifiers include one written as a
\* relative path.
PathSetup ==
  [agents |-> AgentNames, contexts |-> {NilContext}, malformed |-> FALSE,
   ids |-> {"s1", "./s1", "s2"}, cancels |-> FALSE, replies |-> {}]

\* Runs of agents A and E whose context can be cancelled at any time.
AbortSetup ==
  [agents |-> {"A", "E"}, contexts |-> {NilContext}, malformed |-> FALSE, ids |-> SessionIDs,
   cancels |-> TRUE, replies |-> {}]

\* Runs of agent B, which can hand off to A, which can hand off to B.
LiveSetup ==
  [agents |-> {"B"}, contexts |-> {NilContext}, malformed |-> FALSE, ids |-> SessionIDs,
   cancels |-> FALSE, replies |-> {}]

ServiceCompletions ==
  Completions
  \cup {[Message |-> m, Usage |-> Usage(10, 5, 15)] : m \in setup.replies}
  \cup (IF setup.malformed THEN {NoChoices} ELSE {})

ReturnedBy(name) ==
  CallbackResults(name) \cup (IF setup.malformed /\ name = "t1" THEN {NilAgent} ELSE {})

GuardrailReturns ==
  GuardrailOutcomes \cup (IF setup.malformed THEN {NilGuardrailResult} ELSE {})

NilSession == [kind |-> "nil", basePath |-> ""]

NilResult == [isNil |-> TRUE]

ZeroUsage == Usage(0, 0, 0)

NoSnapshot == [existed |-> FALSE, list |-> <<>>]

NoInput == [msg |-> <<>>, text |-> ""]

Event(op, name) == [op |-> op, name |-> name, input |-> NoInput]

GuardrailEvent(op, name, input) == [op |-> op, name |-> name, input |-> input]

SystemMessage(c) ==
  [role |-> "system", content |-> c, refusal |-> "", toolCalls |-> <<>>, toolCallID |-> NoID]

\* Runner.prepareRequest, for a config and agents without model settings
\* and response format.
prepareRequest(a, tools, h) ==
  [Model |-> Model(a), Tools |-> tools, Messages |-> <<SystemMessage(Instructions(a))>> \o h]

\* The call Completions.New(ctx, req) made on behalf of agent a.
CompletionEvent(a, req) == [op |-> "Completions.New", name |-> a, input |-> req]

(***************************************************************************)
(* The stored list of an id as the chosen backend returns it.              *)
(***************************************************************************)
AnyInstance == [basePath |-> "d1"]

Exists(ss, fs, b, id) ==
  IF b = "memory" THEN id \in DOMAIN ss
                  ELSE sessionPath(AnyInstance, id) \in DOMAIN fs

Stored(ss, fs, b, id) ==
  IF b = "memory" THEN MemoryGet(ss, id).messages
                  ELSE FileGet(fs, AnyInstance, id, "none").messages

\* The state of Run between two runs.
RunIdle ==
  /\ pc = "idle"
  /\ agent = "A"
  /\ messages = <<>>
  /\ config = NilConfig
  /\ session = NilSession
  /\ sessionID = ""
  /\ ctxErr = "nil"
  /\ ctxDone = "nil"
  /\ currentAgent = "A"
  /\ history = <<>>
  /\ usage = ZeroUsage
  /\ steps = <<>>
  /\ lastMessage = NoMessage
  /\ turnCount = 0
  /\ result = NilResult
  /\ err = NoErr
  /\ events = <<>>
  /\ verdicts = <<>>
  /\ calls = <<>>
  /\ supplied = <<>>
  /\ loaded = <<>>
  /\ storedBefore = NoSnapshot
  /\ contextArg = NilContext
  /\ contextParams = NilContext
  /\ ctxLog = <<>>

\* A store as its constructor leaves it (NewMemorySession, NewFileSession).
NewStore ==
  /\ backend \in {"memory", "file"}
  /\ sessions = EmptyMap
  /\ files = IF backend = "file" THEN MkdirAll(EmptyMap, "d1") ELSE EmptyMap
  /\ fsInstances = IF backend = "file" THEN <<AnyInstance>> ELSE <<>>

\* A store in which the caller has appended one message under "s1".
SeededStore ==
  /\ backend \in {"memory", "file"}
  /\ sessions = IF backend = "memory"
                  THEN MemoryAppend(EmptyMap, "s1", <<UserMessage("u0")>>).store
                  ELSE EmptyMap
  /\ files = IF backend = "file"
               THEN FileAppend(MkdirAll(EmptyMap, "d1"), AnyInstance, "s1",
                               <<UserMessage("u0")>>, "none").fs
               ELSE EmptyMap
  /\ fsInstances = IF backend = "file" THEN <<AnyInstance>> ELSE <<>>

Counters ==
  /\ opLog = <<>>
  /\ nRuns = 0
  /\ nCalls = 0
  /\ nFaults = 0

\* No function is exercised on its own.
NoCall == [op |-> "none"]

\* A sync.RWMutex nobody holds.
Unlocked == [writer |-> 0, readers |-> {}]

NoGoroutines ==
  /\ goroutines = <<>>
  /\ mu = Unlocked

UnitIdle ==
  /\ mem = EmptyMap
  /\ call = NoCall
  /\ ret = NoCall
  /\ NoGoroutines

\* Runs of the Runner against a store that is new or holds one session.
Init == (NewStore \/ SeededStore) /\ RunIdle /\ Counters /\ UnitIdle /\ setup = PlainSetup

\* The session operations alone, on a new store.
StoreInit == NewStore /\ RunIdle /\ Counters /\ UnitIdle /\ setup = PlainSetup

\* Runs under EdgeSetup, on a new store.
EdgeInit ==
  /\ NewStore
  /\ RunIdle /\ Counters /\ UnitIdle
  /\ setup = EdgeSetup

(***************************************************************************)
(* Session operations issued by the caller.                                *)
(***************************************************************************)
\* The I/O failures an operation on id can meet: reading or removing a file
\* that exists, writing or renaming the temporary file.
FaultsFor(op, id) ==
  IF backend = "file" /\ nFaults < MaxFaults
    THEN LET there == sessionPath(AnyInstance, id) \in DOMAIN files
         IN CASE op = "Get" -> IF there THEN {"none", "read"} ELSE {"none"}
              [] op = "Append" -> {"none", "write", "rename"}
                                  \cup (IF there THEN {"read"} ELSE {})
              [] op = "Clear" -> IF there THEN {"none", "write", "rename"} ELSE {"none"}
              [] OTHER -> IF there THEN {"none", "remove"} ELSE {"none"}
    ELSE {"none"}

Instances == IF backend = "file" THEN 1..Len(fsInstances) ELSE {0}

InstanceOf(i) == IF i = 0 THEN AnyInstance ELSE fsInstances[i]

CountFault(fault) == nFaults' = IF fault = "none" THEN nFaults ELSE nFaults + 1

SessionGet(f, id, fault) ==
  IF backend = "memory" THEN MemoryGet(sessions, id)
                        ELSE FileGet(files, f, id, fault)

SessionAppend(f, id, msgs, fault) ==
  IF backend = "memory"
    THEN LET r == MemoryAppend(sessions, id, msgs)
         IN [sessions |-> r.store, files |-> files, err |-> r.err]
    ELSE LET r == FileAppend(files, f, id, msgs, fault)
         IN [sessions |-> sessions, files |-> r.fs, err |-> r.err]

SessionClear(f, id, fault) ==
  IF backend = "memory"
    THEN LET r == MemoryClear(sessions, id)
         IN [sessions |-> r.store, files |-> files, err |-> r.err]
    ELSE LET r == FileClear(files, f, id, fault)
         IN [sessions |-> sessions, files |-> r.fs, err |-> r.err]

SessionDelete(f, id, fault) ==
  IF backend = "memory"
    THEN LET r == MemoryDelete(sessions, id)
         IN [sessions |-> r.store, files |-> files, err |-> r.err]
    ELSE LET r == FileDelete(files, f, id, fault)
         IN [sessions |-> sessions, files |-> r.fs, err |-> r.err]

\* An entry of opLog: the operation, the instance it went through, its
\* arguments, what it returned, and the stored list of the id before it.
OpRecord(op, i, id, msgs, fault, got, e, ss, fs) ==
  [op |-> op, inst |-> i, id |-> id, msgs |-> msgs, fault |-> fault, got |-> got, err |-> e,
   before |-> Stored(sessions, files, backend, id),
   existed |-> Exists(sessions, files, backend, id),
   changed |-> (ss # sessions \/ fs # files)]

CallerIdle == pc = "idle" /\ Len(opLog) < MaxStoreOps

RunUnchanged ==
  UNCHANGED <<pc, paramVars, ctxErr, localVars, retVars, obsVars, nRuns, nCalls, unitVars,
              ctxVars, envVars>>

OpGet ==
  /\ CallerIdle
  /\ \E i \in Instances, id \in setup.ids :
     \E fault \in FaultsFor("Get", id) :
       LET r == SessionGet(InstanceOf(i), id, fault)
       IN /\ opLog' = Append(opLog, OpRecord("Get", i, id, <<>>, fault, r.messages, r.err,
                                          sessions, files))
          /\ CountFault(fault)
  /\ UNCHANGED storeVars
  /\ RunUnchanged

OpAppend ==
  /\ CallerIdle
  /\ \E i \in Instances, id \in setup.ids, msgs \in CallerMessageLists :
     \E fault \in FaultsFor("Append", id) :
       LET r == SessionAppend(InstanceOf(i), id, msgs, fault)
       IN /\ sessions' = r.sessions
          /\ files' = r.files
          /\ opLog' = Append(opLog, OpRecord("Append", i, id, msgs, fault, <<>>, r.err,
                                          r.sessions, r.files))
          /\ CountFault(fault)
  /\ UNCHANGED <<fsInstances, backend>>
  /\ RunUnchanged

OpClear ==
  /\ CallerIdle
  /\ \E i \in Instances, id \in setup.ids :
     \E fault \in FaultsFor("Clear", id) :
       LET r == SessionClear(InstanceOf(i), id, fault)
       IN /\ sessions' = r.sessions
          /\ files' = r.files
          /\ opLog' = Append(opLog, OpRecord("Clear", i, id, <<>>, fault, <<>>, r.err,
                                          r.sessions, r.files))
          /\ CountFault(fault)
  /\ UNCHANGED <<fsInstances, backend>>
  /\ RunUnchanged

OpDelete ==
  /\ CallerIdle
  /\ \E i \in Instances, id \in setup.ids :
     \E fault \in FaultsFor("Delete", id) :
       LET r == SessionDelete(InstanceOf(i), id, fault)
       IN /\ sessions' = r.sessions
          /\ files' = r.files
          /\ opLog' = Append(opLog, OpRecord("Delete", i, id, <<>>, fault, <<>>, r.err,
                                          r.sessions, r.files))
          /\ CountFault(fault)
  /\ UNCHANGED <<fsInstances, backend>>
  /\ RunUnchanged

NewFileSession ==
  /\ CallerIdle
  /\ backend = "file"
  /\ Len(fsInstances) < MaxInstances
  /\ \E basePath \in Roots :
       /\ files' = MkdirAll(files, basePath)
       /\ fsInstances' = Append(fsInstances, [basePath |-> basePath])
       /\ opLog' = Append(opLog, OpRecord("NewFileSession", Len(fsInstances) + 1, "",
                                          <<>>, "none", <<>>, NoErr,
                                          sessions, MkdirAll(files, basePath)))
  /\ UNCHANGED <<sessions, backend, nFaults>>
  /\ RunUnchanged

StoreNext ==
  \/ OpGet
  \/ OpAppend
  \/ OpClear
  \/ OpDelete
  \/ NewFileSession

StoreSpec == StoreInit /\ [][StoreNext]_vars

\* The same operations under PathSetup.
PathInit == NewStore /\ RunIdle /\ Counters /\ UnitIdle /\ setup = PathSetup

PathSpec == PathInit /\ [][StoreNext]_vars

(***************************************************************************)
(* Errors of the Runner.                                                   *)
(***************************************************************************)
ErrMaxTurnsExceeded == [type |-> "ErrMaxTurnsExceeded"]

ErrTimeout == [type |-> "ErrTimeout"]

ErrNoMessages == [type |-> "ErrNoMessages"]

ContextError(e) == [type |-> "context." \o e]

Unwrapped(msg, inner) == inner

\* fmt.Errorf("msg: %w", inner)
Wrapped(msg, inner) == [type |-> "wrapped", msg |-> msg, inner |-> inner]

HookError == [type |-> "hook error"]

ProviderError == [type |-> "provider error"]

GuardrailError == [type |-> "guardrail error"]

InputGuardrailTripwireError(name, res) ==
  [type |-> "guardrail.InputGuardrailTripwireError", GuardrailName |-> name,
   Message |-> res.Message, Result |-> res]

OutputGuardrailTripwireError(name, res) ==
  [type |-> "guardrail.OutputGuardrailTripwireError", GuardrailName |-> name,
   Message |-> res.Message, Result |-> res]

\* The type assertion of Run's load step, on the NotFoundError of package agents.
IsAgentsNotFoundError(e) == e.type = "agents.NotFoundError"

(***************************************************************************)
(* runInputGuardrails / runOutputGuardrails: outs[i] is what the i-th      *)
(* guardrail function returns when it is called.                           *)
(***************************************************************************)
Sprintf(m) == [msg |-> <<m>>, text |-> ""]

Text(t) == [msg |-> <<>>, text |-> t]

HaltsOnFailedCheck(res) == ~res.Passed

\* The test of a guardrail result that halts the run.
Halts(res) == res.TripwireTriggered

RECURSIVE runGuardrails(_, _, _, _, _)
runGuardrails(kind, names, input, outs, i) ==
  IF i > Len(names)
    THEN [err |-> NoErr, events |-> <<>>, verdicts |-> <<>>, panicked |-> FALSE]
    ELSE LET ev == GuardrailEvent(kind, names[i], input)
         IN IF outs[i].failed
              THEN [err |-> Wrapped("guardrail '" \o names[i] \o "' failed", GuardrailError),
                    events |-> <<ev>>, verdicts |-> <<outs[i]>>, panicked |-> FALSE]
              ELSE IF outs[i] = NilGuardrailResult
                \* result.TripwireTriggered on a nil result
                THEN [err |-> NoErr, events |-> <<ev>>, verdicts |-> <<>>, panicked |-> TRUE]
              ELSE IF Halts(outs[i])
                THEN [err |-> IF kind = "input_guardrail"
                                THEN InputGuardrailTripwireError(names[i], outs[i])
                                ELSE OutputGuardrailTripwireError(names[i], outs[i]),
                      events |-> <<ev>>, verdicts |-> <<outs[i]>>, panicked |-> FALSE]
                ELSE LET rest == runGuardrails(kind, names, input, outs, i + 1)
                     IN [err |-> rest.err, events |-> <<ev>> \o rest.events,
                         verdicts |-> <<outs[i]>> \o rest.verdicts,
                         panicked |-> rest.panicked]

runInputGuardrails(a, input, outs) ==
  runGuardrails("input_guardrail", InputGuardrails(a), input, outs, 1)

runOutputGuardrails(a, output, outs) ==
  runGuardrails("output_guardrail", OutputGuardrails(a), output, outs, 1)

(***************************************************************************)
(* Usage.Add                                                               *)
(***************************************************************************)
Add(u, other) ==
  Usage(u.PromptTokens + other.PromptTokens,
        u.CompletionTokens + other.CompletionTokens,
        u.TotalTokens + other.TotalTokens)

(***************************************************************************)
(* Tool.Execute and Runner.handleToolCalls: cbs[i] is what the callback of *)
(* the i-th requested tool returns if it is called.                        *)
(***************************************************************************)
ValidJSON(args) == args = "{}"

ExecuteUnchecked(name, argsJSON, cb) == cb

Execute(name, argsJSON, cb) ==
  LET args == IF argsJSON = "" THEN "{}" ELSE argsJSON
  IN IF ~ValidJSON(args)
       THEN [kind |-> "error", val |-> "failed to unmarshal arguments"]
       ELSE IF cb = NilCallback
         THEN [kind |-> "error", val |-> "tool " \o name \o " has no callback function"]
         ELSE cb

\* Whether Execute reaches "return t.Callback(args, ctx)".
CallsBack(argsJSON, cb) ==
  ValidJSON(IF argsJSON = "" THEN "{}" ELSE argsJSON) /\ cb # NilCallback

ToolMap(a) == {Tools(a)[i] : i \in DOMAIN Tools(a)}

ToolCall(name, args, res, e) ==
  [ToolName |-> name, Arguments |-> args, Result |-> res, Error |-> e]

\* fmt.Sprintf("%v", available): the names of toolMap in the order the map
\* iteration yields them, which Go leaves open; one order is taken here.
RECURSIVE Available(_)
Available(names) ==
  IF names = {} THEN ""
  ELSE LET n == CHOOSE x \in names : TRUE
       IN IF names = {n} THEN n ELSE n \o " " \o Available(names \ {n})

NotFoundText(name, toolMap) ==
  "Error: Tool " \o name \o " not found. Available tools: [" \o Available(toolMap) \o "]"

ExecutionErrorText(name, text) == "Error executing tool " \o name \o ": " \o text

AgentRendering(name) == "&{" \o name \o "}"

\* The tool output that takes the place of an Agent returned by a callback.
TransferNotice(name) == "Transferred to " \o name

FoundInNext(name, toolMap, next) == name \in ToolMap(next)

\* "tool, found := toolMap[toolName]": the lookup is in the registry passed
\* to handleToolCalls, whatever agent the calls before handed off to.
Found(name, toolMap, next) == name \in toolMap

\* The callback of a tool that is called is passed ctx, the context
\* variables of the run: it reads them and writes a variable of its own.  A
\* nil Agent returned by a callback passes the handoff test and makes
\* handleToolCalls panic where it reads the Agent's name.
RECURSIVE handleToolCallsFrom(_, _, _, _, _, _)
handleToolCallsFrom(toolCalls, toolMap, cbs, ctx, nextAgent, i) ==
  IF i > Len(toolCalls)
    THEN [messages |-> <<>>, recorded |-> <<>>, nextAgent |-> nextAgent, events |-> <<>>,
          contextParams |-> ctx, ctxLog |-> <<>>, panicked |-> FALSE]
    ELSE
      LET tc == toolCalls[i]
          found == Found(tc.Name, toolMap, nextAgent)
          ex == IF found THEN Execute(tc.Name, tc.Arguments, cbs[i])
                         ELSE [kind |-> "error", val |-> "not found"]
          called == found /\ CallsBack(tc.Arguments, cbs[i])
          written == IF called THEN [ctx EXCEPT !.vars = Append(@, tc.Name)] ELSE ctx
          read == IF called
                    THEN <<[tool |-> tc.Name, store |-> ctx.store, read |-> ctx.vars]>>
                    ELSE <<>>
          res == CASE ~found ->
                        [kind |-> "value", val |-> NotFoundText(tc.Name, toolMap)]
                   [] ex.kind = "error" ->
                        [kind |-> "value", val |-> ExecutionErrorText(tc.Name, ex.val)]
                   [] OTHER -> ex
          e == CASE ~found -> "tool not found"
                 [] ex.kind = "error" -> "ToolExecutionError"
                 [] OTHER -> ""
          isHandoff == res.kind = "agent"
          next == IF isHandoff THEN res.val ELSE nextAgent
          resultStr == IF isHandoff THEN TransferNotice(next) ELSE res.val
          toolCallID == TruncateID(tc.ID)
          ev == IF found THEN <<Event("tool", tc.Name)>> ELSE <<>>
      IN IF res = NilAgent
           THEN [messages |-> <<>>, recorded |-> <<>>, nextAgent |-> nextAgent, events |-> ev,
                 contextParams |-> written, ctxLog |-> read, panicked |-> TRUE]
           ELSE LET rest == handleToolCallsFrom(toolCalls, toolMap, cbs, written, next, i + 1)
                IN [messages |-> <<ToolMessage(resultStr, toolCallID)>> \o rest.messages,
                    recorded |-> <<ToolCall(tc.Name, tc.Arguments, res, e)>> \o rest.recorded,
                    nextAgent |-> rest.nextAgent,
                    events |-> ev \o rest.events,
                    contextParams |-> rest.contextParams,
                    ctxLog |-> read \o rest.ctxLog,
                    panicked |-> rest.panicked]

handleToolCallsAfterFirst(toolCalls, toolMap, cbs, ctx, current) ==
  handleToolCallsFrom(toolCalls, toolMap, cbs, ctx, current, 2)

handleToolCalls(toolCalls, toolMap, cbs, ctx, current) ==
  handleToolCallsFrom(toolCalls, toolMap, cbs, ctx, current, 1)

(***************************************************************************)
(* RunConfig.Merge and the model settings of Runner.prepareRequest.  A     *)
(* pointer field is nil or points to a value; a RunConfig lives in mem     *)
(* under an address, "nil" is the nil pointer.                             *)
(***************************************************************************)
NilNum == [isNil |-> TRUE, val |-> 0]

NumPtr(v) == [isNil |-> FALSE, val |-> v]

NilBool == [isNil |-> TRUE, val |-> FALSE]

BoolPtr(b) == [isNil |-> FALSE, val |-> b]

NilJSONSchema ==
  [isNil |-> TRUE, Name |-> "", Description |-> "", Schema |-> "", Strict |-> FALSE]

NilFormat == [isNil |-> TRUE, Type |-> "", JSONSchema |-> NilJSONSchema]

\* jsonschema.Text()
TextFormat == [isNil |-> FALSE, Type |-> "text", JSONSchema |-> NilJSONSchema]

\* jsonschema.JSONSchema(name, schema)
JSONSchemaFormat(name, schema) ==
  [isNil |-> FALSE, Type |-> "json_schema",
   JSONSchema |-> [isNil |-> FALSE, Name |-> name, Description |-> "", Schema |-> schema,
                   Strict |-> TRUE]]

\* A ResponseFormat struct literal with the fields given.
FormatLiteral(type, js) == [isNil |-> FALSE, Type |-> type, JSONSchema |-> js]

\* Schema.ToMap: the schema as a map, or an error when it cannot be marshalled.
ToMap(schema) ==
  IF schema = "unmarshalable" THEN [ok |-> FALSE, map |-> ""]
                              ELSE [ok |-> TRUE, map |-> "map of " \o schema]

RunConfig(maxTurns, temperature, maxTokens, parallel, debug, timeout, format) ==
  [MaxTurns |-> maxTurns, Temperature |-> temperature, MaxTokens |-> maxTokens,
   ParallelToolCalls |-> parallel, Debug |-> debug, Timeout |-> timeout,
   ResponseFormat |-> format]

NilAddr == "nil"

Store(m, addr, v) == [a \in (DOMAIN m) \cup {addr} |-> IF a = addr THEN v ELSE m[a]]

\* RunConfig.Merge on the configs at addresses c and overrides.
Overridden(b, o) ==
  [MaxTurns |-> IF o.MaxTurns > 0 THEN o.MaxTurns ELSE b.MaxTurns,
   Temperature |-> IF ~o.Temperature.isNil THEN o.Temperature ELSE b.Temperature,
   MaxTokens |-> IF ~o.MaxTokens.isNil THEN o.MaxTokens ELSE b.MaxTokens,
   ParallelToolCalls |-> IF ~o.ParallelToolCalls.isNil THEN o.ParallelToolCalls
                                                       ELSE b.ParallelToolCalls,
   Debug |-> IF o.Debug THEN TRUE ELSE b.Debug,
   Timeout |-> IF o.Timeout > 0 THEN o.Timeout ELSE b.Timeout,
   ResponseFormat |-> IF ~o.ResponseFormat.isNil THEN o.ResponseFormat
                                                 ELSE b.ResponseFormat]

MergeInPlace(m, c, overrides) ==
  IF overrides = NilAddr
    THEN [mem |-> m, ptr |-> c]
    ELSE [mem |-> Store(m, c, Overridden(m[c], m[overrides])), ptr |-> c]

Merge(m, c, overrides) ==
  IF overrides = NilAddr
    THEN [mem |-> m, ptr |-> c]
    ELSE [mem |-> Store(m, "result", Overridden(m[c], m[overrides])), ptr |-> "result"]

\* The model settings and the response format prepareRequest puts in the
\* request for agent under config, with the tools Run derived from the
\* agent's; err is set when the request is not built.
NoFormat == [kind |-> "unset", Name |-> "", Description |-> "", Schema |-> "", Strict |-> FALSE]

ChosenFirstAgent(agentValue, configValue) ==
  IF ~agentValue.isNil THEN agentValue ELSE configValue

\* "if config.X != nil .. else if agent.X != nil .."
Chosen(agentValue, configValue) ==
  IF ~configValue.isNil THEN configValue ELSE agentValue

RequestFormat(responseFormat) ==
  CASE responseFormat.isNil -> [format |-> NoFormat, err |-> NoErr]
    [] responseFormat.Type = "text" ->
         [format |-> [NoFormat EXCEPT !.kind = "text"], err |-> NoErr]
    [] responseFormat.Type = "json_schema" /\ ~responseFormat.JSONSchema.isNil ->
         LET js == responseFormat.JSONSchema
             schemaMap == ToMap(js.Schema)
         IN IF ~schemaMap.ok
              THEN [format |-> NoFormat, err |-> Wrapped("invalid schema", [type |-> "json"])]
              ELSE [format |-> [kind |-> "json_schema", Name |-> js.Name,
                                Description |-> js.Description, Schema |-> schemaMap.map,
                                Strict |-> js.Strict],
                    err |-> NoErr]
    [] OTHER -> [format |-> NoFormat, err |-> NoErr]

ModelSettings(ag, cfg, tools) ==
  LET parallelCalls == IF ~cfg.ParallelToolCalls.isNil THEN cfg.ParallelToolCalls.val
                                                       ELSE ag.ParallelToolCalls
      f == RequestFormat(Chosen(ag.ResponseFormat, cfg.ResponseFormat))
  IN [req |-> [Temperature |-> Chosen(ag.Temperature, cfg.Temperature),
               MaxTokens |-> Chosen(ag.MaxTokens, cfg.MaxTokens),
               Tools |-> tools,
               ParallelToolCalls |-> IF Len(tools) > 0 /\ ~parallelCalls
                                       THEN BoolPtr(FALSE) ELSE NilBool,
               ResponseFormat |-> f.format],
      err |-> f.err]

\* The response format of an agent of the runs: "E" has one whose schema
\* cannot be converted; and the settings of the agents and configs of the
\* runs, which set nothing else.
ResponseFormatOf(a) ==
  IF a = "E" THEN JSONSchemaFormat("reply", "unmarshalable") ELSE NilFormat

SettingsOf(a) ==
  [Temperature |-> NilNum, MaxTokens |-> NilNum, ParallelToolCalls |-> TRUE,
   ResponseFormat |-> ResponseFormatOf(a), Tools |-> Tools(a)]

RunSettings(cfg) == RunConfig(cfg.MaxTurns, NilNum, NilNum, NilBool, FALSE, cfg.Timeout, NilFormat)

\* The error of prepareRequest in a turn of agent a under cfg.
RequestError(a, cfg) == ModelSettings(SettingsOf(a), RunSettings(cfg), Tools(a)).err

(***************************************************************************)
(* Runner.Run                                                              *)
(***************************************************************************)
Finish(res, e) ==
  /\ pc' = "done"
  /\ result' = res
  /\ err' = e

ReturnNoResult(res, e) == Finish(NilResult, e)

AbortAfterSave(e) ==
  /\ pc' = "save"
  /\ result' = NilResult
  /\ err' = e

\* "return nil, err" of the steps before and inside the loop.
Abort(e) == Finish(NilResult, e)

\* "return result, err" of the steps after the loop.
ReturnResult(res, e) == Finish(res, e)

NeverStops(e) == FALSE

\* "if err != nil { return result, ... }" of a step after the loop.
Stops(e) == ~IsNil(e)

\* A panic unwinds Run: nothing is returned.
Panic ==
  /\ pc' = "panicked"
  /\ UNCHANGED retVars

\* The session handle and identifier a caller passes: no handle, no
\* identifier, or a handle on the store with an identifier.
TheSession == [kind |-> backend, basePath |-> IF backend = "file" THEN "d1" ELSE ""]

SessionArgs ==
  {<<NilSession, "s1">>, <<TheSession, "">>, <<TheSession, "s1">>, <<TheSession, "s2">>}

HandleOf(sess) == [basePath |-> sess.basePath]

EffectiveConfig(cfg) == IF cfg.isNil THEN DefaultRunConfig ELSE cfg

\* What ctx.Err() may return when it is read: the deadline of config.Timeout
\* can have passed only when one was set, the caller may have cancelled.
ContextStates(cfg) ==
  {"nil", "Canceled"} \cup (IF cfg.Timeout > 0 THEN {"DeadlineExceeded"} ELSE {})

\* The context a caller passes to Run: cancelled already, or not.
ContextsPassed == IF setup.cancels THEN {"nil", "Canceled"} ELSE {"nil"}

\* The error the context holds when Run reads ctx.Err(): the one it held
\* before, a context that is done staying done.
ContextAt(cfg) == IF ctxDone = "nil" THEN ContextStates(cfg) ELSE {ctxDone}

OnlyDeadline(c) == c = "DeadlineExceeded"

\* "if err := ctx.Err(); err != nil"
Done(c) == c # "nil"

NeverEmpty(msgs) == FALSE

\* The test of the messages at the entry of Run.
NoMessages(msgs) == Len(msgs) = 0

\* Entry of Run up to the OnBeforeRun hook (runner.go 53-79).
Run ==
  /\ pc = "idle"
  /\ nRuns < MaxRuns
  /\ \E a \in setup.agents, msgs \in CallerMessageLists, cfg \in Configs, sa \in SessionArgs,
        ctx \in setup.contexts, passed \in ContextsPassed :
       \E hookFails \in (IF ~NoMessages(msgs) /\ HasOnBeforeRun(a) THEN BOOLEAN ELSE {FALSE}) :
         /\ agent' = a
         /\ contextArg' = ctx
         /\ ctxDone' = passed
         /\ contextParams' = IF NoMessages(msgs) THEN ctx ELSE ContextFor(ctx)
         /\ ctxLog' = <<>>
         /\ messages' = msgs
         /\ supplied' = msgs
         /\ config' = EffectiveConfig(cfg)
         /\ session' = sa[1]
         /\ sessionID' = sa[2]
         /\ storedBefore' = [existed |-> Exists(sessions, files, backend, sa[2]),
                             list |-> Stored(sessions, files, backend, sa[2])]
         /\ IF NoMessages(msgs)
              THEN /\ Abort(ErrNoMessages)
                   /\ events' = <<>>
              ELSE IF HasOnBeforeRun(a)
                THEN /\ events' = <<Event("OnBeforeRun", a)>>
                     /\ IF hookFails
                          THEN Abort(Wrapped("OnBeforeRun hook failed", HookError))
                          ELSE pc' = "guardrails" /\ UNCHANGED retVars
                ELSE /\ events' = <<>>
                     /\ pc' = "guardrails"
                     /\ UNCHANGED retVars
  /\ nRuns' = nRuns + 1
  /\ UNCHANGED <<storeVars, ctxErr, localVars, verdicts, calls, loaded, opLog, nCalls,
                 nFaults>>
  /\ UNCHANGED <<unitVars, setup>>

FirstMessage(msgs) == msgs[1]

\* The message the input guardrails see.
GuardedMessage(msgs) == msgs[Len(msgs)]

\* Input guardrails (runner.go 81-88).
RunInputGuardrails ==
  /\ pc = "guardrails"
  /\ IF Len(InputGuardrails(agent)) > 0 /\ Len(messages) > 0
       THEN \E outs \in [1..Len(InputGuardrails(agent)) -> GuardrailReturns] :
              LET userInput == Sprintf(GuardedMessage(messages))
                  r == runInputGuardrails(agent, userInput, outs)
              IN /\ events' = events \o r.events
                 /\ verdicts' = r.verdicts
                 /\ IF r.panicked
                      THEN Panic
                      ELSE IF ~IsNil(r.err)
                        THEN Abort(r.err)
                        ELSE pc' = "load" /\ UNCHANGED retVars
       ELSE /\ pc' = "load"
            /\ UNCHANGED <<retVars, events, verdicts>>
  /\ UNCHANGED <<storeVars, paramVars, ctxErr, localVars, calls, supplied, loaded,
                 storedBefore, opLog, countVars>>
  /\ UNCHANGED <<unitVars, ctxVars, envVars>>

\* Load of the session history and set-up of the loop (runner.go 90-112).
LoadSession ==
  /\ pc = "load"
  /\ IF session.kind # "nil" /\ sessionID # ""
       THEN \E fault \in FaultsFor("Get", sessionID) :
              LET r == SessionGet(HandleOf(session), sessionID, fault)
                  abort == ~IsNil(r.err) /\ ~IsAgentsNotFoundError(r.err)
                  msgs == IF IsNil(r.err) THEN r.messages \o messages ELSE messages
              IN /\ events' = Append(events, Event("Get", sessionID))
                 /\ CountFault(fault)
                 /\ IF abort
                      THEN /\ Abort(Wrapped("failed to load session", r.err))
                           /\ UNCHANGED <<messages, loaded, history>>
                      ELSE /\ messages' = msgs
                           /\ loaded' = IF IsNil(r.err) THEN r.messages ELSE <<>>
                           /\ history' = msgs
                           /\ pc' = "turn"
                           /\ UNCHANGED retVars
       ELSE /\ history' = messages
            /\ pc' = "turn"
            /\ UNCHANGED <<messages, loaded, retVars, events, nFaults>>
  /\ verdicts' = <<>>
  /\ currentAgent' = agent
  /\ usage' = ZeroUsage
  /\ steps' = <<>>
  /\ lastMessage' = NoMessage
  /\ turnCount' = 0
  /\ UNCHANGED <<storeVars, agent, config, session, sessionID, ctxErr, calls, supplied,
                 storedBefore, opLog, nRuns, nCalls>>
  /\ UNCHANGED <<unitVars, ctxVars, envVars>>

MaxTurnsPassed(cfg, count) == cfg.MaxTurns > 0 /\ count > cfg.MaxTurns

\* The turn-limit test at the top of a turn.
MaxTurnsReached(cfg, count) == cfg.MaxTurns > 0 /\ count >= cfg.MaxTurns

\* Top of a turn: the turn limit, the context, the turn counter
\* (runner.go 114-143).
Turn ==
  /\ pc = "turn"
  /\ IF MaxTurnsReached(config, turnCount)
       THEN /\ Abort(ErrMaxTurnsExceeded)
            /\ ctxDone' \in (IF setup.cancels THEN ContextAt(config) ELSE {ctxDone})
            /\ UNCHANGED <<turnCount, ctxErr>>
       ELSE \E c \in ContextAt(config) :
              /\ ctxErr' = c
              /\ ctxDone' = c
              /\ IF Done(c)
                   THEN /\ Abort(IF c = "DeadlineExceeded" THEN ErrTimeout
                                                                       ELSE ContextError(c))
                        /\ UNCHANGED turnCount
                   ELSE /\ nCalls < MaxCalls
                        /\ turnCount' = turnCount + 1
                        /\ IF ~IsNil(RequestError(currentAgent, config))
                             THEN Abort(RequestError(currentAgent, config))
                             ELSE pc' = "call" /\ UNCHANGED retVars
  /\ UNCHANGED <<storeVars, paramVars, currentAgent, history, usage, steps,
                 lastMessage, obsVars, opLog, countVars>>
  /\ UNCHANGED <<unitVars, ctxVars, setup>>

StopOnToolError(recorded) ==
  IF \E j \in DOMAIN recorded : recorded[j].Error # "" THEN "done" ELSE "turn"

\* Where Run goes after the tool calls of a reply: round the loop again.
ContinueLoop(recorded) == "turn"

AlwaysToolCalls(message) == FALSE

\* "if len(message.ToolCalls) == 0": the reply ends the loop.
NoToolCalls(message) == Len(message.ToolCalls) = 0

\* The tools and the request of a turn (runner.go 131-143).
Request == prepareRequest(currentAgent, Tools(currentAgent), history)

StepNumberedFromZero(a, n) == [AgentName |-> a, StepNumber |-> n - 1, ToolCalls |-> <<>>]

\* The Step recorded for the n-th turn, made on behalf of agent a, before
\* its tool calls are known (runner.go 173-178).
Step(a, n) == [AgentName |-> a, StepNumber |-> n, ToolCalls |-> <<>>]

\* The completion-service call of a turn and the handling of its reply
\* (runner.go 145-199).
Complete ==
  /\ pc = "call"
  /\ nCalls' = nCalls + 1
  /\ \E c \in ContextAt(config), failed \in BOOLEAN :
       /\ c # "nil" => failed
       /\ ctxErr' = c
       /\ ctxDone' = c
       /\ IF failed
            THEN /\ Abort(Wrapped("LLM call failed",
                                   IF c # "nil" THEN ContextError(c) ELSE ProviderError))
                 /\ events' = Append(events, CompletionEvent(currentAgent, Request))
                 /\ UNCHANGED <<localVars, calls, ctxVars>>
            ELSE \E completion \in ServiceCompletions :
                   \E cbs \in [1..Len(completion.Message.ToolCalls) -> AllCallbackResults] :
                     /\ \A i \in 1..Len(completion.Message.ToolCalls) :
                          cbs[i] \in ReturnedBy(completion.Message.ToolCalls[i].Name)
                     /\ LET u == completion.Usage
                            message == [completion.Message EXCEPT !.ToolCalls =
                                          [i \in 1..Len(completion.Message.ToolCalls) |->
                                             [completion.Message.ToolCalls[i] EXCEPT
                                                !.ID = TruncateID(
                                                  completion.Message.ToolCalls[i].ID)]]]
                            step == Step(currentAgent, turnCount)
                            h == handleToolCalls(message.ToolCalls, ToolMap(currentAgent), cbs,
                                                 contextParams, currentAgent)
                        IN /\ events' = Append(events, CompletionEvent(currentAgent, Request))
                                        \o h.events
                           /\ usage' = IF u.PromptTokens > 0 THEN Add(usage, u) ELSE usage
                           /\ calls' = Append(calls, u)
                           /\ CASE completion = NoChoices ->
                                     \* completion.Choices[0] of an empty list
                                     /\ pc' = "panicked"
                                     /\ UNCHANGED <<history, lastMessage, steps, currentAgent,
                                                    ctxVars>>
                                [] completion # NoChoices /\ NoToolCalls(message) ->
                                     /\ history' = Append(history, ToParam(message))
                                     /\ lastMessage' = message
                                     /\ steps' = Append(steps, step)
                                     /\ pc' = "output"
                                     /\ UNCHANGED <<currentAgent, ctxVars>>
                                [] OTHER ->
                                     /\ contextParams' = h.contextParams
                                     /\ UNCHANGED contextArg
                                     /\ ctxLog' = ctxLog \o h.ctxLog
                                     /\ IF h.panicked
                                          THEN /\ history' = Append(history, ToParam(message))
                                               /\ pc' = "panicked"
                                               /\ UNCHANGED <<steps, currentAgent, lastMessage>>
                                          ELSE /\ history' = Append(history, ToParam(message))
                                                             \o h.messages
                                               /\ steps' = Append(steps, [step EXCEPT
                                                                   !.ToolCalls = h.recorded])
                                               /\ currentAgent' = h.nextAgent
                                               /\ pc' = ContinueLoop(h.recorded)
                                               /\ UNCHANGED lastMessage
                           /\ UNCHANGED <<turnCount, retVars>>
  /\ UNCHANGED <<storeVars, paramVars, verdicts, supplied, loaded, storedBefore, opLog,
                 nRuns, nFaults>>
  /\ UNCHANGED <<unitVars, setup>>

\* Final output, Result and output guardrails (runner.go 204-227).
FinalOutput(m) ==
  IF m.Content # "" THEN m.Content
  ELSE IF m.Refusal # "" THEN m.Refusal
  ELSE ""

DiscardedResult == NilResult

\* The Result built after the loop.
MakeResult ==
  [isNil |-> FALSE, Messages |-> history, Agent |-> currentAgent, Usage |-> usage,
   Steps |-> steps, FinalOutput |-> FinalOutput(lastMessage)]

ActiveAgent(orig, current) == current

\* The agent whose output guardrails Run evaluates: its parameter agent.
OutputGuardrailAgent(orig, current) == orig

RunOutputGuardrails ==
  /\ pc = "output"
  /\ LET finalOutput == FinalOutput(lastMessage)
         guarded == OutputGuardrailAgent(agent, currentAgent)
     IN IF Len(OutputGuardrails(guarded)) > 0 /\ finalOutput # ""
          THEN \E outs \in [1..Len(OutputGuardrails(guarded)) -> GuardrailReturns] :
                 LET r == runOutputGuardrails(guarded, Text(finalOutput), outs)
                 IN /\ events' = events \o r.events
                    /\ verdicts' = r.verdicts
                    /\ IF r.panicked
                         THEN Panic
                         ELSE IF Stops(r.err)
                           THEN ReturnResult(MakeResult, r.err)
                           ELSE /\ pc' = "save"
                                /\ result' = MakeResult
                                /\ UNCHANGED err
          ELSE /\ pc' = "save"
               /\ result' = MakeResult
               /\ UNCHANGED <<err, events, verdicts>>
  /\ UNCHANGED <<storeVars, paramVars, ctxErr, localVars, calls, supplied, loaded,
                 storedBefore, opLog, countVars>>
  /\ UNCHANGED <<unitVars, ctxVars, envVars>>

\* Save of the session history (runner.go 229-234).
SaveSession ==
  /\ pc = "save"
  /\ IF session.kind # "nil" /\ sessionID # ""
       THEN \E fault \in FaultsFor("Append", sessionID) :
              LET r == SessionAppend(HandleOf(session), sessionID, history, fault)
              IN /\ sessions' = r.sessions
                 /\ files' = r.files
                 /\ events' = Append(events, Event("Append", sessionID))
                 /\ CountFault(fault)
                 /\ IF Stops(r.err)
                      THEN ReturnResult(result, Wrapped("failed to save session", r.err))
                      ELSE pc' = "after" /\ UNCHANGED retVars
       ELSE /\ pc' = "after"
            /\ UNCHANGED <<sessions, files, events, nFaults, retVars>>
  /\ verdicts' = <<>>
  /\ UNCHANGED <<fsInstances, backend, paramVars, ctxErr, localVars, calls, supplied, loaded,
                 storedBefore, opLog, nRuns, nCalls>>
  /\ UNCHANGED <<unitVars, ctxVars, envVars>>

HooksOfCurrent(orig, current) == current

\* The agent whose OnAfterRun Run calls, with itself as argument: its
\* parameter agent.
HookedAgent(orig, current) == orig

\* OnAfterRun hook and return (runner.go 236-243).
AfterRun ==
  /\ pc = "after"
  /\ IF HasOnAfterRun(HookedAgent(agent, currentAgent))
       THEN \E hookFails \in BOOLEAN :
              /\ events' = Append(events,
                                  Event("OnAfterRun", HookedAgent(agent, currentAgent)))
              /\ IF hookFails
                   THEN ReturnResult(result, Wrapped("OnAfterRun hook failed", HookError))
                   ELSE ReturnResult(result, NoErr)
       ELSE /\ ReturnResult(result, NoErr)
            /\ UNCHANGED events
  /\ UNCHANGED <<storeVars, paramVars, ctxErr, localVars, verdicts, calls, supplied, loaded,
                 storedBefore, opLog, countVars>>
  /\ UNCHANGED <<unitVars, ctxVars, envVars>>

\* The caller takes what Run returned; the next run starts afresh.
Return ==
  /\ pc = "done"
  /\ pc' = "idle"
  /\ agent' = "A"
  /\ messages' = <<>>
  /\ config' = NilConfig
  /\ session' = NilSession
  /\ sessionID' = ""
  /\ ctxErr' = "nil"
  /\ ctxDone' = "nil"
  /\ currentAgent' = "A"
  /\ history' = <<>>
  /\ usage' = ZeroUsage
  /\ steps' = <<>>
  /\ lastMessage' = NoMessage
  /\ turnCount' = 0
  /\ result' = NilResult
  /\ err' = NoErr
  /\ events' = <<>>
  /\ verdicts' = <<>>
  /\ calls' = <<>>
  /\ supplied' = <<>>
  /\ loaded' = <<>>
  /\ storedBefore' = NoSnapshot
  /\ contextArg' = NilContext
  /\ contextParams' = NilContext
  /\ ctxLog' = <<>>
  /\ UNCHANGED <<storeVars, opLog, countVars>>
  /\ UNCHANGED <<unitVars, setup>>

Next ==
  \/ Run
  \/ RunInputGuardrails
  \/ LoadSession
  \/ Turn
  \/ Complete
  \/ RunOutputGuardrails
  \/ SaveSession
  \/ AfterRun
  \/ Return

Spec == Init /\ [][Next]_vars

\* The same runs under EdgeSetup.
EdgeSpec == EdgeInit /\ [][Next]_vars

\* Runs under AbortSetup, against a store that is new or holds one session.
AbortInit ==
  /\ (NewStore \/ SeededStore)
  /\ RunIdle /\ Counters /\ UnitIdle
  /\ setup = AbortSetup

AbortSpec == AbortInit /\ [][Next]_vars

\* Runs under LiveSetup in which every step Run has begun comes to its end:
\* the hooks, guardrails, completion calls, tool callbacks and session
\* operations all return.  When the caller starts a run and when it takes
\* the outcome is left open.
LiveInit ==
  /\ (NewStore \/ SeededStore) /\ backend = "memory"
  /\ RunIdle /\ Counters /\ UnitIdle
  /\ setup = LiveSetup

Returns ==
  /\ WF_vars(RunInputGuardrails)
  /\ WF_vars(LoadSession)
  /\ WF_vars(Turn)
  /\ WF_vars(Complete)
  /\ WF_vars(RunOutputGuardrails)
  /\ WF_vars(SaveSession)
  /\ WF_vars(AfterRun)

LiveSpec == LiveInit /\ [][Next]_vars /\ Returns

(***************************************************************************)
(* RunConfig.Merge and the model settings of Runner.prepareRequest,        *)
(* exercised on their own.                                                 *)
(***************************************************************************)
\* The configs Merge is applied to, and the calls made of it.
BaseConfigs ==
  {RunConfig(mt, t, k, p, d, to, rf) :
     mt \in {0, 10}, t \in {NilNum, NumPtr(7)}, k \in {NilNum, NumPtr(100)},
     p \in {NilBool, BoolPtr(TRUE)}, d \in BOOLEAN, to \in {0, 5},
     rf \in {NilFormat, TextFormat}}

OverrideConfigs ==
  {RunConfig(mt, t, k, p, d, to, rf) :
     mt \in {-1, 0, 3}, t \in {NilNum, NumPtr(0)}, k \in {NilNum, NumPtr(0)},
     p \in {NilBool, BoolPtr(FALSE)}, d \in BOOLEAN, to \in {0, 9},
     rf \in {NilFormat, JSONSchemaFormat("answer", "object")}}

\* The agents and configs prepareRequest is applied to.
AgentSettings ==
  {[Temperature |-> t, MaxTokens |-> k, ParallelToolCalls |-> p, ResponseFormat |-> rf,
    Tools |-> tools] :
     t \in {NilNum, NumPtr(7)}, k \in {NilNum, NumPtr(100)}, p \in BOOLEAN,
     rf \in {NilFormat, TextFormat, JSONSchemaFormat("answer", "object")},
     tools \in {<<>>, <<"t1">>}}

ConfigSettings ==
  {RunConfig(0, t, k, p, FALSE, 0, rf) :
     t \in {NilNum, NumPtr(0)}, k \in {NilNum, NumPtr(50)},
     p \in {NilBool, BoolPtr(TRUE), BoolPtr(FALSE)},
     rf \in {NilFormat, TextFormat, JSONSchemaFormat("reply", "object"),
             JSONSchemaFormat("reply", "unmarshalable"),
             FormatLiteral("json_schema", NilJSONSchema),
             FormatLiteral("json_object", NilJSONSchema)}}

NoStore ==
  /\ backend = "memory"
  /\ sessions = EmptyMap
  /\ files = EmptyMap
  /\ fsInstances = <<>>

MergeInit ==
  \E b \in BaseConfigs :
    \/ /\ mem = Store(EmptyMap, "c", b)
       /\ call = [op |-> "Merge", c |-> "c", overrides |-> NilAddr, before |-> mem]
    \/ \E o \in OverrideConfigs :
         /\ mem = Store(Store(EmptyMap, "c", b), "overrides", o)
         /\ call = [op |-> "Merge", c |-> "c", overrides |-> "overrides", before |-> mem]

PrepareInit ==
  \E ag \in AgentSettings, cfg \in ConfigSettings :
    /\ mem = Store(Store(EmptyMap, "agent", ag), "config", cfg)
    /\ call = [op |-> "prepareRequest", agent |-> "agent", config |-> "config",
               tools |-> ag.Tools]

ConfigInit ==
  /\ NoStore /\ RunIdle /\ Counters /\ NoGoroutines
  /\ setup = PlainSetup
  /\ MergeInit \/ PrepareInit
  /\ ret = NoCall

CallMerge ==
  /\ call.op = "Merge" /\ ret = NoCall
  /\ LET r == Merge(mem, call.c, call.overrides)
     IN /\ mem' = r.mem
        /\ ret' = [op |-> "Merge", ptr |-> r.ptr]
  /\ UNCHANGED <<storeVars, pc, paramVars, ctxErr, localVars, retVars, obsVars, opLog,
                 countVars, call, threadVars, ctxVars, envVars>>

CallPrepareRequest ==
  /\ call.op = "prepareRequest" /\ ret = NoCall
  /\ LET r == ModelSettings(mem[call.agent], mem[call.config], call.tools)
     IN ret' = [op |-> "prepareRequest", req |-> r.req, err |-> r.err]
  /\ UNCHANGED <<storeVars, pc, paramVars, ctxErr, localVars, retVars, obsVars, opLog,
                 countVars, mem, call, threadVars, ctxVars, envVars>>

ConfigNext ==
  \/ CallMerge
  \/ CallPrepareRequest

ConfigSpec == ConfigInit /\ [][ConfigNext]_vars

(***************************************************************************)
(* The built-in validators (package builtin), each exercised on its own.   *)
(* A string the URL filter compares is the sequence of its characters.     *)
(***************************************************************************)
Chars == {"*", ".", "a", "b"}

Strings == UNION {[1..k -> Chars] : k \in 0..MaxHostLen}

\* strings.HasPrefix, strings.HasSuffix
HasPrefix(s, prefix) ==
  Len(s) >= Len(prefix) /\ SubSeq(s, 1, Len(prefix)) = prefix

HasSuffix(s, suffix) ==
  Len(s) >= Len(suffix) /\ SubSeq(s, Len(s) - Len(suffix) + 1, Len(s)) = suffix

endsWithSuffix(urlHost, pattern) ==
  \/ urlHost = pattern
  \/ /\ HasPrefix(pattern, <<"*", ".">>)
     /\ HasSuffix(urlHost, SubSeq(pattern, 3, Len(pattern)))

\* matchesPattern: the exact match, then the wildcard match.
matchesPattern(urlHost, pattern) ==
  \/ urlHost = pattern
  \/ /\ HasPrefix(pattern, <<"*", ".">>)
     /\ LET suffix == SubSeq(pattern, 3, Len(pattern))
        IN urlHost = suffix \/ HasSuffix(urlHost, <<".">> \o suffix)

matchesAnyPattern(urlHost, patterns) ==
  \E i \in DOMAIN patterns : matchesPattern(urlHost, patterns[i])

MatchInit ==
  \E h \in Strings, p \in Strings :
    call = [op |-> "matchesPattern", urlHost |-> h, pattern |-> p]

CallMatchesPattern ==
  /\ call.op = "matchesPattern" /\ ret = NoCall
  /\ ret' = [op |-> "matchesPattern", matched |-> matchesPattern(call.urlHost, call.pattern)]
  /\ UNCHANGED <<storeVars, pc, paramVars, ctxErr, localVars, retVars, obsVars, opLog,
                 countVars, mem, call, threadVars, ctxVars, envVars>>

\* A functional option sets one field of the conf it is applied to, or
\* appends to it (WithCustomPattern, WithBlocklist, WithAllowlist).
Option(field, b) == [field |-> field, val |-> [bool |-> b], appends |-> FALSE]

StringOption(field, str) == [field |-> field, val |-> [str |-> str], appends |-> FALSE]

Appending(field, vals) == [field |-> field, val |-> [list |-> vals], appends |-> TRUE]

Value(val) ==
  IF "bool" \in DOMAIN val THEN val.bool
  ELSE IF "str" \in DOMAIN val THEN val.str
  ELSE val.list

\* "for _, opt := range opts { opt(config) }"
RECURSIVE Configure(_, _, _)
Configure(conf, opts, i) ==
  IF i > Len(opts) THEN conf
  ELSE LET o == opts[i]
           c == IF o.appends THEN [conf EXCEPT ![o.field] = @ \o Value(o.val)]
                             ELSE [conf EXCEPT ![o.field] = Value(o.val)]
       IN Configure(c, opts, i + 1)

FailingAlwaysTrips(tripwire, message, metadata) ==
  [Passed |-> FALSE, TripwireTriggered |-> TRUE, Message |-> message, Metadata |-> metadata]

\* The Result of a validator that found a violation, and of one that did not.
Failing(tripwire, message, metadata) ==
  [Passed |-> FALSE, TripwireTriggered |-> tripwire, Message |-> message,
   Metadata |-> metadata]

Passing(message) ==
  [Passed |-> TRUE, TripwireTriggered |-> FALSE, Message |-> message, Metadata |-> <<>>]

\* NewPIIGuardrail.  An input is taken by the PII patterns that match it.
DefaultPIIConfig ==
  [Tripwire |-> TRUE, DetectEmail |-> TRUE, DetectPhone |-> TRUE, DetectSSN |-> TRUE,
   DetectCreditCard |-> TRUE, CustomPatterns |-> <<>>]

PIIPatterns(conf) ==
  (IF conf.DetectEmail THEN <<"email">> ELSE <<>>)
  \o (IF conf.DetectPhone THEN <<"phone">> ELSE <<>>)
  \o (IF conf.DetectSSN THEN <<"ssn">> ELSE <<>>)
  \o (IF conf.DetectCreditCard THEN <<"credit_card">> ELSE <<>>)
  \o conf.CustomPatterns

PIIGuardrail(opts, matching) ==
  LET conf == Configure(DefaultPIIConfig, opts, 1)
      IsDetected(name) == name \in matching
      detected == SelectSeq(PIIPatterns(conf), IsDetected)
  IN IF Len(detected) > 0
       THEN Failing(conf.Tripwire, "Detected PII", detected)
       ELSE Passing("No PII detected")

\* NewURLFilterGuardrail.  An input is taken by the hosts extractURLs finds
\* in it.
DefaultURLFilterConfig == [Tripwire |-> TRUE, Blocklist |-> <<>>, Allowlist |-> <<>>]

Blocked(conf, u) ==
  IF Len(conf.Allowlist) > 0
    THEN ~matchesAnyPattern(u, conf.Allowlist)
    ELSE Len(conf.Blocklist) > 0 /\ matchesAnyPattern(u, conf.Blocklist)

URLFilterGuardrail(opts, urls) ==
  LET conf == Configure(DefaultURLFilterConfig, opts, 1)
      IsBlocked(u) == Blocked(conf, u)
      blocked == SelectSeq(urls, IsBlocked)
  IN IF Len(urls) = 0 THEN Passing("No URLs found")
     ELSE IF Len(blocked) > 0
       THEN Failing(conf.Tripwire, "Blocked URLs", blocked)
       ELSE Passing("All URLs passed validation")

\* NewRegexGuardrail.  An input is taken by whether the pattern matches it.
DefaultRegexConfig ==
  [MustMatch |-> FALSE, Tripwire |-> TRUE, Message |-> "Pattern validation failed"]

RegexGuardrail(opts, matches) ==
  LET conf == Configure(DefaultRegexConfig, opts, 1)
      passed == (conf.MustMatch /\ matches) \/ (~conf.MustMatch /\ ~matches)
      msg == IF conf.Message # "Pattern validation failed" THEN conf.Message
             ELSE IF conf.MustMatch THEN "Input does not match required pattern"
             ELSE "Input matches forbidden pattern"
  IN IF ~passed
       THEN Failing(conf.Tripwire, msg, [must_match |-> conf.MustMatch,
                                            input_match |-> matches])
       ELSE Passing("Pattern validation passed")

\* The options and inputs the validators are exercised with.
OptionLists(options) ==
  {<<>>} \cup {<<o>> : o \in options} \cup {<<o1, o2>> : o1 \in options, o2 \in options}

PIIOptions ==
  {Option("Tripwire", b) : b \in BOOLEAN}
  \cup {Option("DetectEmail", FALSE), Option("DetectSSN", FALSE),
        Appending("CustomPatterns", <<"badge">>)}

PIIInputs == {{}, {"email"}, {"phone"}, {"ssn", "email"}, {"badge"}}

ExampleCom == <<"a">>

SubExampleCom == <<"b", ".", "a">>

NotExampleCom == <<"b", "a">>

URLFilterOptions ==
  {Option("Tripwire", b) : b \in BOOLEAN}
  \cup {Appending("Blocklist", <<<<"*", ".", "a">>>>), Appending("Blocklist", <<<<"b">>>>),
        Appending("Allowlist", <<ExampleCom>>)}

URLInputs ==
  {<<>>, <<ExampleCom>>, <<SubExampleCom>>, <<NotExampleCom, <<"b">>>>, <<NotExampleCom>>}

RegexOptions ==
  {Option("Tripwire", b) : b \in BOOLEAN}
  \cup {Option("MustMatch", b) : b \in BOOLEAN}
  \cup {StringOption("Message", "no digits please")}

ValidatorInit ==
  \/ \E opts \in OptionLists(PIIOptions), inp \in PIIInputs :
       call = [op |-> "pii_detection", opts |-> opts, input |-> inp]
  \/ \E opts \in OptionLists(URLFilterOptions), inp \in URLInputs :
       call = [op |-> "url_filter", opts |-> opts, input |-> inp]
  \/ \E opts \in OptionLists(RegexOptions), inp \in BOOLEAN :
       call = [op |-> "regex_validation", opts |-> opts, input |-> inp]

BuiltinInit ==
  /\ NoStore /\ RunIdle /\ Counters /\ NoGoroutines
  /\ setup = PlainSetup
  /\ mem = EmptyMap
  /\ MatchInit \/ ValidatorInit
  /\ ret = NoCall

\* A call of the Func of a built-in guardrail.
CallValidator ==
  /\ call.op \in {"pii_detection", "url_filter", "regex_validation"} /\ ret = NoCall
  /\ ret' = [op |-> call.op,
             result |-> CASE call.op = "pii_detection" -> PIIGuardrail(call.opts, call.input)
                          [] call.op = "url_filter" ->
                               URLFilterGuardrail(call.opts, call.input)
                          [] OTHER -> RegexGuardrail(call.opts, call.input)]
  /\ UNCHANGED <<storeVars, pc, paramVars, ctxErr, localVars, retVars, obsVars, opLog,
                 countVars, mem, call, threadVars, ctxVars, envVars>>

BuiltinNext ==
  \/ CallMatchesPattern
  \/ CallValidator

BuiltinSpec == BuiltinInit /\ [][BuiltinNext]_vars

(***************************************************************************)
(* Session operations running concurrently on one store instance.  Each    *)
(* goroutine makes one call; the call takes the store's RWMutex and then   *)
(* proceeds by the accesses it makes to the map or to the file system.     *)
(***************************************************************************)
Goroutines == {1, 2, 3}

Batch(g) ==
  CASE g = 1 -> <<UserMessage("a1"), UserMessage("a2")>>
    [] g = 2 -> <<UserMessage("b1")>>
    [] OTHER -> <<UserMessage("c1"), UserMessage("c2")>>

\* The calls a goroutine may make, each with the I/O failure it will meet.
Operations(b, g) ==
  LET ops == [op : {"Get", "Clear", "Delete"}, msgs : {<<>>}]
             \cup [op : {"Append"}, msgs : {Batch(g)}]
      faults(op) == CASE b = "memory" -> {"none"}
                      [] op = "Get" -> {"none", "read"}
                      [] op = "Append" -> {"none", "read", "marshal", "write", "rename"}
                      [] op = "Clear" -> {"none", "marshal", "write", "rename"}
                      [] OTHER -> {"none", "remove"}
  IN UNION {{[op |-> o.op, id |-> "s1", msgs |-> o.msgs, fault |-> f, pc |-> "start",
              existing |-> NilSlice, data |-> MarshalIndent(NilSlice), got |-> <<>>,
              err |-> NoErr, before |-> NoSnapshot] : f \in faults(o.op)} : o \in ops}

ThreadInit ==
  /\ NewStore \/ SeededStore
  /\ RunIdle /\ Counters /\ setup = PlainSetup
  /\ mem = EmptyMap /\ ret = NoCall
  /\ call = [op |-> "go", sessions |-> sessions, files |-> files]
  /\ goroutines \in {gs \in [Goroutines -> UNION {Operations(backend, g) : g \in Goroutines}] :
                       \A g \in Goroutines : gs[g] \in Operations(backend, g)}
  /\ mu = Unlocked

NoExclusion(m, shared) == TRUE

\* RWMutex: Lock waits until nobody holds the mutex, RLock until no writer does.
CanLock(m, shared) ==
  IF shared THEN m.writer = 0 ELSE m.writer = 0 /\ m.readers = {}

Shared(g) == goroutines[g].op = "Get"

ThreadUnchanged ==
  UNCHANGED <<fsInstances, backend, pc, paramVars, ctxErr, localVars, retVars, obsVars,
              opLog, countVars, configVars, ctxVars, envVars>>

\* The goroutine's locals after a step; a step that sets err ends the call.
Returning(g, e) == [goroutines EXCEPT ![g].err = e, ![g].pc = "unlock"]

At(g, position) == [goroutines EXCEPT ![g].pc = position]

\* mu.Lock() or mu.RLock(), the first statement of every operation.
Lock(g) ==
  /\ goroutines[g].pc = "start"
  /\ CanLock(mu, Shared(g))
  /\ mu' = IF Shared(g) THEN [mu EXCEPT !.readers = @ \cup {g}]
                        ELSE [mu EXCEPT !.writer = g]
  /\ goroutines' = [goroutines EXCEPT
                      ![g].pc = "locked",
                      ![g].before =
                         [existed |-> Exists(sessions, files, backend, goroutines[g].id),
                          list |-> Stored(sessions, files, backend, goroutines[g].id)]]
  /\ UNCHANGED <<sessions, files>>
  /\ ThreadUnchanged

\* The first access of the operation: the map lookup of MemorySession (for
\* Append with the creation of the missing entry, for Get with the copy),
\* os.ReadFile with json.Unmarshal or os.Stat of FileSession.
Lookup(g) ==
  LET th == goroutines[g]
      path == sessionPath(AnyInstance, th.id)
  IN
  /\ th.pc = "locked"
  /\ IF backend = "memory"
       THEN CASE th.op = "Get" ->
                   LET r == MemoryGet(sessions, th.id)
                   IN /\ goroutines' = [goroutines EXCEPT ![g].got = r.messages,
                                                          ![g].err = r.err,
                                                          ![g].pc = "unlock"]
                      /\ UNCHANGED sessions
              [] th.op = "Append" ->
                   /\ sessions' = IF th.id \in DOMAIN sessions
                                    THEN sessions ELSE Store(sessions, th.id, <<>>)
                   /\ goroutines' = [goroutines EXCEPT
                                       ![g].existing = Slice(sessions'[th.id]),
                                       ![g].pc = "update"]
              [] OTHER ->
                   /\ goroutines' = IF th.id \in DOMAIN sessions
                                      THEN At(g, "update")
                                      ELSE Returning(g, SessionNotFoundError(th.id))
                   /\ UNCHANGED sessions
       ELSE /\ UNCHANGED sessions
            /\ CASE th.op = "Get" ->
                      LET r == FileGet(files, AnyInstance, th.id, th.fault)
                      IN goroutines' = [goroutines EXCEPT ![g].got = r.messages,
                                                          ![g].err = r.err,
                                                          ![g].pc = "unlock"]
                 [] th.op = "Append" ->
                      IF path \notin DOMAIN files
                        THEN goroutines' = At(g, "marshal")
                        ELSE IF th.fault = "read"
                          THEN goroutines' = Returning(g, StorageError(th.id, "read"))
                          ELSE LET u == Unmarshal(files[path])
                               IN IF ~u.ok
                                    THEN goroutines' =
                                           Returning(g, StorageError(th.id, "unmarshal"))
                                    ELSE goroutines' = [goroutines EXCEPT
                                                          ![g].existing = u.slice,
                                                          ![g].pc = "marshal"]
                 [] th.op = "Clear" ->
                      goroutines' = IF path \in DOMAIN files
                                      THEN At(g, "marshal")
                                      ELSE Returning(g, SessionNotFoundError(th.id))
                 [] OTHER ->
                      goroutines' = IF path \in DOMAIN files
                                      THEN At(g, "update")
                                      ELSE Returning(g, SessionNotFoundError(th.id))
  /\ UNCHANGED <<files, mu>>
  /\ ThreadUnchanged

\* The write of the operation to the map, or os.Remove of Delete.
Update(g) ==
  LET th == goroutines[g]
      path == sessionPath(AnyInstance, th.id)
  IN
  /\ th.pc = "update"
  /\ IF backend = "memory"
       THEN /\ sessions' =
                 CASE th.op = "Append" -> Store(sessions, th.id, th.existing.items \o th.msgs)
                   [] th.op = "Clear" -> Store(sessions, th.id, <<>>)
                   [] OTHER -> [x \in (DOMAIN sessions) \ {th.id} |-> sessions[x]]
            /\ goroutines' = At(g, "unlock")
            /\ UNCHANGED files
       ELSE /\ UNCHANGED sessions
            /\ IF th.fault = "remove" \/ path \notin DOMAIN files
                 THEN /\ goroutines' = Returning(g, StorageError(th.id, "delete"))
                      /\ UNCHANGED files
                 ELSE /\ files' = Remove(files, path)
                      /\ goroutines' = At(g, "unlock")
  /\ UNCHANGED mu
  /\ ThreadUnchanged

\* writeAtomic: json.MarshalIndent of the whole new list.
Marshal(g) ==
  LET th == goroutines[g]
      list == IF th.op = "Append" THEN GoAppend(th.existing, th.msgs) ELSE Slice(<<>>)
  IN
  /\ th.pc = "marshal"
  /\ goroutines' = IF th.fault = "marshal"
                     THEN Returning(g, StorageError(th.id, "marshal"))
                     ELSE [goroutines EXCEPT ![g].data = MarshalIndent(list),
                                             ![g].pc = "write"]
  /\ UNCHANGED <<sessions, files, mu>>
  /\ ThreadUnchanged

\* writeAtomic: os.WriteFile of the temporary file.
WriteTemp(g) ==
  LET th == goroutines[g]
      tmp == tempPath(AnyInstance, th.id)
  IN
  /\ th.pc = "write"
  /\ IF th.fault = "write"
       THEN /\ files' = WriteFile(files, tmp, Truncated(th.data))
            /\ goroutines' = Returning(g, StorageError(th.id, "write"))
       ELSE /\ files' = WriteFile(files, tmp, th.data)
            /\ goroutines' = At(g, "rename")
  /\ UNCHANGED <<sessions, mu>>
  /\ ThreadUnchanged

\* writeAtomic: os.Rename onto the session file, and os.Remove of the
\* temporary file when the rename fails.
RenameTemp(g) ==
  LET th == goroutines[g]
      tmp == tempPath(AnyInstance, th.id)
  IN
  /\ th.pc = "rename"
  /\ IF th.fault = "rename" \/ tmp \notin DOMAIN files
       THEN /\ files' = Remove(files, tmp)
            /\ goroutines' = Returning(g, StorageError(th.id, "rename"))
       ELSE /\ files' = Rename(files, tmp, sessionPath(AnyInstance, th.id))
            /\ goroutines' = At(g, "unlock")
  /\ UNCHANGED <<sessions, mu>>
  /\ ThreadUnchanged

\* The deferred mu.Unlock() or mu.RUnlock(); the call returns.
Unlock(g) ==
  /\ goroutines[g].pc = "unlock"
  /\ mu' = IF Shared(g) THEN [mu EXCEPT !.readers = @ \ {g}]
                        ELSE [mu EXCEPT !.writer = IF @ = g THEN 0 ELSE @]
  /\ goroutines' = At(g, "done")
  /\ UNCHANGED <<sessions, files>>
  /\ ThreadUnchanged

ThreadNext ==
  \/ \E g \in Goroutines : Lock(g)
  \/ \E g \in Goroutines : Lookup(g)
  \/ \E g \in Goroutines : Update(g)
  \/ \E g \in Goroutines : Marshal(g)
  \/ \E g \in Goroutines : WriteTemp(g)
  \/ \E g \in Goroutines : RenameTemp(g)
  \/ \E g \in Goroutines : Unlock(g)

ThreadSpec == ThreadInit /\ [][ThreadNext]_vars

(***************************************************************************)
(* MemorySession at the level of Go slices.  mem maps the address of each  *)
(* backing array to its cells; a slice is the address of its array, its    *)
(* length and its capacity.  Here sessions maps an id to the slice stored  *)
(* under it and ret holds the slices Get has returned to the caller.       *)
(***************************************************************************)
Elems(m, sl) == SubSeq(m[sl.arr], 1, sl.len)

NewArray(m) == Cardinality(DOMAIN m) + 1

\* make([]T, n)
Make(m, n) ==
  [mem |-> Store(m, NewArray(m), [i \in 1..n |-> ""]),
   slice |-> [arr |-> NewArray(m), len |-> n, cap |-> n]]

SameSlice(m, sl) == [mem |-> m, slice |-> sl]

\* result := make([]T, len(messages)); copy(result, messages)
CopyOf(m, sl) ==
  LET made == Make(m, sl.len)
  IN [mem |-> Store(made.mem, made.slice.arr, Elems(m, sl)), slice |-> made.slice]

\* The capacities append may give the new array when cap(sl) is too small
\* for need elements: the runtime takes need when it exceeds twice the old
\* capacity and twice the old capacity otherwise, and may round the
\* allocation up to its next size class.
GrownCaps(sl, need) ==
  LET newcap == IF need > 2 * sl.cap THEN need ELSE 2 * sl.cap
  IN {newcap, newcap + 1}

\* append(sl, xs...), the new array getting capacity newcap if one is made.
AppendTo(m, sl, xs, newcap) ==
  LET need == sl.len + Len(xs)
      cells(old, n) == [i \in 1..n |-> IF i <= sl.len THEN old[i]
                                       ELSE IF i <= need THEN xs[i - sl.len]
                                       ELSE IF i <= Len(old) THEN old[i] ELSE ""]
  IN IF need <= sl.cap
       THEN [mem |-> Store(m, sl.arr, cells(m[sl.arr], sl.cap)),
             slice |-> [sl EXCEPT !.len = need]]
       ELSE [mem |-> Store(m, NewArray(m), cells(m[sl.arr], newcap)),
             slice |-> [arr |-> NewArray(m), len |-> need, cap |-> newcap]]

\* MemorySession.Append on the map ss.
SliceAppend(m, ss, id, msgs, newcap) ==
  LET made == IF id \in DOMAIN ss THEN [mem |-> m, slice |-> ss[id]] ELSE Make(m, 0)
      r == AppendTo(made.mem, made.slice, msgs, newcap)
  IN [mem |-> r.mem, sessions |-> Store(ss, id, r.slice)]

\* A store nothing was appended to, and one after Append("s1", two
\* messages) and Append("s1", one message), whose array has a spare cell.
SliceInit ==
  /\ backend = "memory"
  /\ files = EmptyMap
  /\ fsInstances = <<>>
  /\ \/ mem = EmptyMap /\ sessions = EmptyMap
     \/ LET first == SliceAppend(EmptyMap, EmptyMap, "s1", <<"u1", "u2">>, 2)
            second == SliceAppend(first.mem, first.sessions, "s1", <<"u3">>, 4)
        IN mem = second.mem /\ sessions = second.sessions
  /\ RunIdle /\ Counters /\ NoGoroutines /\ setup = PlainSetup
  /\ call = NoCall
  /\ ret = <<>>

SliceUnchanged ==
  UNCHANGED <<files, fsInstances, backend, pc, paramVars, ctxErr, localVars, retVars,
              obsVars, countVars, call, threadVars, ctxVars, envVars>>

MayCall(op) == Len(opLog) < MaxStoreOps /\ opLog' = Append(opLog, op)

\* store.Get(ctx, "s1") of a caller that keeps the list returned.
GetList ==
  /\ MayCall("Get")
  /\ "s1" \in DOMAIN sessions
  /\ LET r == CopyOf(mem, sessions["s1"])
     IN /\ mem' = r.mem
        /\ ret' = Append(ret, r.slice)
  /\ UNCHANGED sessions
  /\ SliceUnchanged

\* store.Append(ctx, "s1", msgs)
AppendList ==
  /\ MayCall("Append")
  /\ \E msgs \in {<<"v1">>, <<"v1", "v2">>} :
       LET old == IF "s1" \in DOMAIN sessions THEN sessions["s1"]
                                               ELSE [arr |-> 0, len |-> 0, cap |-> 0]
       IN \E newcap \in GrownCaps(old, old.len + Len(msgs)) :
            LET r == SliceAppend(mem, sessions, "s1", msgs, newcap)
            IN /\ mem' = r.mem
               /\ sessions' = r.sessions
  /\ UNCHANGED ret
  /\ SliceUnchanged

\* list[i] = x by the caller, on a list Get returned.
ReplaceElement ==
  /\ MayCall("replace")
  /\ \E k \in DOMAIN ret :
       \E i \in 1..ret[k].len :
         mem' = [mem EXCEPT ![ret[k].arr][i] = "x"]
  /\ UNCHANGED <<sessions, ret>>
  /\ SliceUnchanged

\* list[i], list[j] = list[j], list[i] by the caller.
SwapElements ==
  /\ MayCall("reorder")
  /\ \E k \in DOMAIN ret :
       \E i, j \in 1..ret[k].len :
         /\ i < j
         /\ mem' = [mem EXCEPT ![ret[k].arr][i] = mem[ret[k].arr][j],
                               ![ret[k].arr][j] = mem[ret[k].arr][i]]
  /\ UNCHANGED <<sessions, ret>>
  /\ SliceUnchanged

\* list = append(list, y) by the caller.
AppendElement ==
  /\ MayCall("append")
  /\ \E k \in DOMAIN ret :
       \E newcap \in GrownCaps(ret[k], ret[k].len + 1) :
         LET r == AppendTo(mem, ret[k], <<"y">>, newcap)
         IN /\ mem' = r.mem
            /\ ret' = [ret EXCEPT ![k] = r.slice]
  /\ UNCHANGED sessions
  /\ SliceUnchanged

SliceNext ==
  \/ GetList
  \/ AppendList
  \/ ReplaceElement
  \/ SwapElements
  \/ AppendElement

SliceSpec == SliceInit /\ [][SliceNext]_vars

(***************************************************************************)
(* Properties of Run and of the session stores.                            *)
(***************************************************************************)
IsPrefix(a, b) == Len(a) <= Len(b) /\ SubSeq(b, 1, Len(a)) = a

SessionUsed == session.kind # "nil" /\ sessionID # ""

HasEvent(op) == \E i \in DOMAIN events : events[i].op = op

NumCompletions == Cardinality({i \in DOMAIN events : events[i].op = "Completions.New"})

StoredNow == Stored(sessions, files, backend, sessionID)

SaveFailed == err.type = "wrapped" /\ err.msg = "failed to save session"

\* C1: with a session handle and a non-empty sessionID under which nothing
\* is stored, the load step does not abort the run: the run goes on to its
\* first turn with the caller-supplied messages as its history.
C1_LoadOfAbsentSessionProceeds ==
  [][(pc = "load" /\ SessionUsed /\ ~Exists(sessions, files, backend, sessionID))
       => (pc' = "turn" /\ history' = supplied /\ IsNil(err'))]_vars

\* C2: with MaxTurns = N > 0 a run never makes more than N completion calls,
\* and a run whose N replies all requested tool calls ends with
\* ErrMaxTurnsExceeded and a nil Result.
C2_MaxTurnsBoundsCalls ==
  (pc # "idle" /\ config.MaxTurns > 0) =>
     /\ NumCompletions <= config.MaxTurns
     /\ (/\ pc = "done"
         /\ Len(calls) = config.MaxTurns
         /\ Len(steps) = config.MaxTurns
         /\ \A i \in DOMAIN steps : steps[i].ToolCalls # <<>>)
        => (err = ErrMaxTurnsExceeded /\ result.isNil)

C2_Witness ==
  /\ pc = "done"
  /\ err = ErrMaxTurnsExceeded
  /\ config.MaxTurns = 2
  /\ NumCompletions = 2
  /\ \A i \in DOMAIN steps : steps[i].ToolCalls # <<>>

RECURSIVE SumUsage(_)
SumUsage(us) == IF us = <<>> THEN ZeroUsage ELSE Add(SumUsage(Tail(us)), Head(us))

\* C3: the Usage of the Result of a successful run is the componentwise sum
\* of the token counts reported by every completion call of the run.
C3_UsageIsSumOfReports ==
  (pc = "done" /\ IsNil(err) /\ ~result.isNil) => result.Usage = SumUsage(calls)

\* C4: once the save step of a run with a session has succeeded, the list
\* stored under the id is the list stored before the run followed by the whole
\* history of the run, which itself starts with the loaded list and the
\* caller's messages; a failed save leaves the stored list as it was and the
\* Result is still returned.
C4_SaveAppendsWholeHistory ==
  /\ (SessionUsed /\ (pc = "after" \/ (pc = "done" /\ HasEvent("Append") /\ ~SaveFailed)))
       => /\ ~result.isNil
          /\ loaded = storedBefore.list
          /\ Len(result.Messages) > Len(loaded) + Len(supplied)
          /\ SubSeq(result.Messages, 1, Len(loaded) + Len(supplied)) = loaded \o supplied
          /\ StoredNow = storedBefore.list \o result.Messages
  /\ (SessionUsed /\ pc = "done" /\ SaveFailed)
       => (~result.isNil /\ StoredNow = storedBefore.list)

C4_Witness ==
  /\ pc = "after"
  /\ SessionUsed
  /\ nRuns = 2
  /\ Len(storedBefore.list) > 1
  /\ IsPrefix(storedBefore.list \o storedBefore.list, StoredNow)

\* C5: no step of a run removes a session or changes the list stored under
\* an id otherwise than by extending it: the list before the step is a prefix
\* of the list after it.
C5_RunnerOnlyAppends ==
  [][\A id \in SessionIDs :
       /\ Exists(sessions, files, backend, id) => Exists(sessions', files', backend', id)
       /\ IsPrefix(Stored(sessions, files, backend, id),
                   Stored(sessions', files', backend', id))]_vars

C5_Witness ==
  /\ pc = "after"
  /\ SessionUsed
  /\ backend = "file"
  /\ storedBefore.existed
  /\ Len(StoredNow) > Len(storedBefore.list)

\* C6: Append(id, M1), Append(id, M2), Get(id) in a row, with no I/O
\* failure, returns what was stored before followed by M1 and then M2; on an
\* absent id that is M1 followed by M2.
C6_AppendAppendGet ==
  \A i \in DOMAIN opLog :
    (/\ i + 2 <= Len(opLog)
     /\ opLog[i].op = "Append" /\ opLog[i].fault = "none"
     /\ opLog[i + 1].op = "Append" /\ opLog[i + 1].fault = "none"
     /\ opLog[i + 2].op = "Get" /\ opLog[i + 2].fault = "none"
     /\ opLog[i + 1].id = opLog[i].id
     /\ opLog[i + 2].id = opLog[i].id)
    => /\ IsNil(opLog[i].err) /\ IsNil(opLog[i + 1].err) /\ IsNil(opLog[i + 2].err)
       /\ ~opLog[i].existed => opLog[i].before = <<>>
       /\ opLog[i + 2].got = opLog[i].before \o opLog[i].msgs \o opLog[i + 1].msgs

C6_Witness ==
  /\ Len(opLog) = 3
  /\ backend = "file"
  /\ opLog[1].op = "Append" /\ opLog[2].op = "Append" /\ opLog[3].op = "Get"
  /\ opLog[2].id = opLog[1].id /\ opLog[3].id = opLog[1].id
  /\ Len(opLog[1].msgs) = 2 /\ Len(opLog[2].msgs) = 1
  /\ opLog[3].got = opLog[1].msgs \o opLog[2].msgs

\* C7: Clear or Delete of an absent id returns NotFound and changes nothing;
\* of an existing id, without I/O failure, it succeeds, and the next Get of
\* the id returns the empty list after Clear and NotFound after Delete.
C7_ClearAndDelete ==
  \A i \in DOMAIN opLog :
    LET o == opLog[i]
    IN o.op \in {"Clear", "Delete"} =>
         /\ ~o.existed => (o.err = SessionNotFoundError(o.id) /\ ~o.changed)
         /\ (o.existed /\ o.fault = "none") => IsNil(o.err)
         /\ (/\ o.existed /\ IsNil(o.err)
             /\ i < Len(opLog)
             /\ opLog[i + 1].op = "Get"
             /\ opLog[i + 1].id = o.id
             /\ opLog[i + 1].fault = "none")
            => IF o.op = "Clear"
                 THEN IsNil(opLog[i + 1].err) /\ opLog[i + 1].got = <<>>
                 ELSE opLog[i + 1].err = SessionNotFoundError(o.id)

C7_Witness ==
  /\ Len(opLog) = 3
  /\ opLog[2].op = "Clear" /\ opLog[2].existed /\ opLog[2].before # <<>>
  /\ opLog[3].op = "Get" /\ opLog[3].id = opLog[2].id
  /\ IsNil(opLog[3].err) /\ opLog[3].got = <<>>

\* C8: what Append stored through one FileSession is what Get returns through
\* a FileSession constructed afterwards on the same root, and in every state
\* Get returns the same through every instance.
C8_PersistsAcrossInstances ==
  /\ \A i \in DOMAIN opLog :
       (/\ i + 2 <= Len(opLog)
        /\ opLog[i].op = "Append" /\ IsNil(opLog[i].err)
        /\ opLog[i + 1].op = "NewFileSession"
        /\ opLog[i + 2].op = "Get" /\ opLog[i + 2].fault = "none"
        /\ opLog[i + 2].inst = opLog[i + 1].inst
        /\ opLog[i + 2].id = opLog[i].id)
       => /\ IsNil(opLog[i + 2].err)
          /\ opLog[i + 2].got = opLog[i].before \o opLog[i].msgs
  /\ \A i, j \in DOMAIN fsInstances, id \in SessionIDs :
       fsInstances[i].basePath = fsInstances[j].basePath
         => FileGet(files, fsInstances[i], id, "none")
              = FileGet(files, fsInstances[j], id, "none")

C8_Witness ==
  /\ Len(opLog) = 3
  /\ opLog[1].op = "Append" /\ opLog[1].msgs # <<>> /\ opLog[1].inst = 1
  /\ opLog[2].op = "NewFileSession"
  /\ opLog[3].op = "Get" /\ opLog[3].inst = 2 /\ opLog[3].id = opLog[1].id
  /\ opLog[3].got = opLog[1].msgs

HookEvents(a) == IF HasOnBeforeRun(a) THEN <<Event("OnBeforeRun", a)>> ELSE <<>>

InputGuardrailEvents(a, n, input) ==
  [i \in 1..n |-> GuardrailEvent("input_guardrail", InputGuardrails(a)[i], input)]

\* C9: a run that ends with an InputGuardrailTripwireError has called the
\* input guardrails of its agent in list order, each on the last message the
\* caller supplied, up to the first whose result has TripwireTriggered; the
\* error carries that guardrail's name, message and result, the Result is nil,
\* and nothing else was called: no later guardrail, no Get, no completion, no
\* Append. No run gets past a result with TripwireTriggered.
C9_InputTripwireAborts ==
  /\ (pc = "done" /\ err.type = "guardrail.InputGuardrailTripwireError") =>
       LET k == Len(verdicts)
       IN /\ k \in 1..Len(InputGuardrails(agent))
          /\ verdicts[k].TripwireTriggered
          /\ \A j \in 1..(k - 1) : ~verdicts[j].TripwireTriggered
          /\ err.GuardrailName = InputGuardrails(agent)[k]
          /\ err.Message = verdicts[k].Message
          /\ err.Result = verdicts[k]
          /\ result.isNil
          /\ events = HookEvents(agent)
                      \o InputGuardrailEvents(agent, k, Sprintf(supplied[Len(supplied)]))
          /\ ~HasEvent("Get") /\ ~HasEvent("Completions.New") /\ ~HasEvent("Append")
          /\ StoredNow = storedBefore.list
  /\ pc = "load" => \A j \in DOMAIN verdicts : ~verdicts[j].TripwireTriggered

C9_Witness ==
  /\ pc = "done"
  /\ err.type = "guardrail.InputGuardrailTripwireError"
  /\ err.GuardrailName = "g1"
  /\ Len(supplied) = 2
  /\ SessionUsed

\* C10: a guardrail result without TripwireTriggered (and without an error
\* of the guardrail) never ends the run, whatever its Passed: either a later
\* guardrail was evaluated after it, or all were and the run went on; and the
\* state the run goes on from (events, error, Result) is the same for every
\* value of Passed.
C10_AdvisoryNeverAborts ==
  /\ \A k \in DOMAIN verdicts :
       (~verdicts[k].failed /\ ~verdicts[k].TripwireTriggered)
         => (k < Len(verdicts) \/ pc \in {"load", "save"})
  /\ (pc = "load" /\ InputGuardrails(agent) # <<>>) =>
       /\ Len(verdicts) = Len(InputGuardrails(agent))
       /\ IsNil(err) /\ result.isNil
       /\ events = HookEvents(agent)
                   \o InputGuardrailEvents(agent, Len(InputGuardrails(agent)),
                                           Sprintf(supplied[Len(supplied)]))
  /\ (pc = "save" /\ verdicts # <<>>) =>
       /\ Len(verdicts) = Len(OutputGuardrails(agent))
       /\ IsNil(err) /\ result = MakeResult

C10_Witness ==
  /\ pc = "load"
  /\ Len(verdicts) = 2
  /\ ~verdicts[1].Passed /\ ~verdicts[1].TripwireTriggered /\ ~verdicts[1].failed

\* C11: a run that ends with an OutputGuardrailTripwireError returns the
\* Result computed after the loop (history, final agent, usage, steps and a
\* non-empty final output); a run that ends with an
\* InputGuardrailTripwireError returns no Result.
C11_OutputTripwireKeepsResult ==
  /\ (pc = "done" /\ err.type = "guardrail.OutputGuardrailTripwireError") =>
       /\ ~result.isNil
       /\ result = MakeResult
       /\ result.FinalOutput # ""
       /\ Len(result.Steps) = NumCompletions
       /\ Len(result.Messages) > Len(loaded) + Len(supplied)
       /\ err.Result.TripwireTriggered
  /\ (pc = "done" /\ err.type = "guardrail.InputGuardrailTripwireError") => result.isNil

C11_Witness ==
  /\ pc = "done"
  /\ err.type = "guardrail.OutputGuardrailTripwireError"
  /\ ~result.isNil
  /\ Len(result.Steps) = 2
  /\ result.Usage.TotalTokens > 0

IsOutputGuardrailEvent(e) == e.op = "output_guardrail"

OutputEvents == SelectSeq(events, IsOutputGuardrailEvent)

OutputGuardrailEvents(a, output) ==
  [i \in 1..Len(OutputGuardrails(a)) |->
     GuardrailEvent("output_guardrail", OutputGuardrails(a)[i], Text(output))]

\* The recorded tool calls whose result is an Agent, as <<step, index>>.
Handoffs ==
  UNION {{<<i, j>> : j \in {k \in DOMAIN steps[i].ToolCalls :
                              steps[i].ToolCalls[k].Result.kind = "agent"}} :
         i \in DOMAIN steps}

\* C12: the output guardrails evaluated in a run are output guardrails of the
\* agent that is active when the loop exits.
C12_OutputGuardrailsOfFinalAgent ==
  \A i \in DOMAIN OutputEvents :
    \E k \in DOMAIN OutputGuardrails(currentAgent) :
      OutputEvents[i].name = OutputGuardrails(currentAgent)[k]

IsCompletionEvent(e) == e.op = "Completions.New"

CompletionEvents == SelectSeq(events, IsCompletionEvent)

\* The agent in charge after the first n steps: the result of the last
\* recorded tool call of those steps that returned an Agent, else the agent
\* passed to Run.
ActiveAfter(n) ==
  LET hs == {h \in Handoffs : h[1] <= n}
  IN IF hs = {} THEN agent
     ELSE LET last == CHOOSE h \in hs :
                        \A g \in hs : g[1] < h[1] \/ (g[1] = h[1] /\ g[2] <= h[2])
          IN steps[last[1]].ToolCalls[last[2]].Result.val

\* The index in history of the assistant message of step i.
RECURSIVE StepStart(_)
StepStart(i) ==
  IF i = 1 THEN Len(loaded) + Len(supplied) + 1
           ELSE StepStart(i - 1) + 1 + Len(steps[i - 1].ToolCalls)

\* C14: after a tool callback has returned an Agent, the agent in charge and
\* the Result's Agent are the Agent returned last; each completion request is
\* built from the model, instructions and tools of the agent then in charge,
\* and tools are looked up in that agent's tools; the tool message of the
\* call is the text "Transferred to " followed by the Agent's name.
C14_Handoff ==
  /\ pc \in {"turn", "call", "output", "save", "after"} => currentAgent = ActiveAfter(Len(steps))
  /\ ~result.isNil => result.Agent = ActiveAfter(Len(steps))
  /\ \A k \in DOMAIN CompletionEvents :
       LET a == ActiveAfter(k - 1)
           req == CompletionEvents[k].input
       IN /\ req.Model = Model(a)
          /\ req.Tools = Tools(a)
          /\ req.Messages[1] = SystemMessage(Instructions(a))
          /\ k <= Len(steps) =>
               /\ steps[k].AgentName = a
               /\ \A j \in DOMAIN steps[k].ToolCalls :
                    (steps[k].ToolCalls[j].Error = "tool not found")
                      <=> (steps[k].ToolCalls[j].ToolName \notin ToolMap(a))
  /\ \A h \in Handoffs :
       LET m == history[StepStart(h[1]) + h[2]]
       IN /\ m.role = "tool"
          /\ m.content = "Transferred to " \o steps[h[1]].ToolCalls[h[2]].Result.val
          /\ m.toolCallID = history[StepStart(h[1])].toolCalls[h[2]].ID

C14_Witness ==
  /\ pc = "done"
  /\ ~result.isNil
  /\ agent = "A"
  /\ result.Agent = "B"
  /\ Len(CompletionEvents) = 2
  /\ CompletionEvents[2].input.Model = Model("B")

\* The recorded tool calls, as <<step, index>>.
RecordedCalls == UNION {{<<i, j>> : j \in DOMAIN steps[i].ToolCalls} : i \in DOMAIN steps}

Recorded(c) == steps[c[1]].ToolCalls[c[2]]

\* The tool message appended to history for a recorded tool call.
ToolOutput(c) == history[StepStart(c[1]) + c[2]]

HasNoCallback(name) == NilCallback \in CallbackResults(name)

NormalArgs(args) == IF args = "" THEN "{}" ELSE args

ExecutionErrors(name) ==
  {"failed to unmarshal arguments", "tool " \o name \o " has no callback function", "boom"}

\* The ways a run can end once a reply with tool calls has been handled: at
\* the top of the next turn, or in the next completion call.
EndsAfterToolCalls ==
  \/ err \in {ErrMaxTurnsExceeded, ErrTimeout, ContextError("Canceled")}
       /\ Len(CompletionEvents) = Len(steps)
  \/ err.type = "wrapped" /\ err.msg = "LLM call failed"
       /\ Len(CompletionEvents) = Len(steps) + 1

\* C15: a requested tool that the agent in charge does not have, or whose
\* Execute fails (arguments that are not JSON, no callback, an error of the
\* callback), gets an error recorded in its ToolCall and an error text as its
\* tool message in history, and the run goes round the loop again: it is never
\* the step at which the run ends.
C15_ToolFailureIsNotFatal ==
  \A c \in RecordedCalls :
    LET tc == Recorded(c)
        a == ActiveAfter(c[1] - 1)
        found == tc.ToolName \in ToolMap(a)
    IN /\ ~found =>
            /\ tc.Error = "tool not found"
            /\ ToolOutput(c).content = NotFoundText(tc.ToolName, ToolMap(a))
       /\ (found /\ (~ValidJSON(NormalArgs(tc.Arguments)) \/ HasNoCallback(tc.ToolName)))
            => tc.Error = "ToolExecutionError"
       /\ tc.Error = "ToolExecutionError" =>
            /\ found
            /\ \E t \in ExecutionErrors(tc.ToolName) :
                 ToolOutput(c).content = ExecutionErrorText(tc.ToolName, t)
       /\ tc.Error # "" =>
            /\ ToolOutput(c).role = "tool"
            /\ tc.Result = [kind |-> "value", val |-> ToolOutput(c).content]
            /\ c[1] = Len(steps) =>
                 (pc \in {"turn", "call"} \/ (pc = "done" /\ EndsAfterToolCalls))

C15_Witness ==
  /\ pc = "done"
  /\ IsNil(err)
  /\ Len(steps) = 2
  /\ \E j \in DOMAIN steps[1].ToolCalls :
       steps[1].ToolCalls[j].Error = "tool not found"

C17_NoMessages ==
  (pc # "idle" /\ supplied = <<>>) =>
     /\ pc = "done"
     /\ err = ErrNoMessages
     /\ result.isNil
     /\ events = <<>>
     /\ StoredNow = storedBefore.list

C17_Witness ==
  /\ pc = "done"
  /\ supplied = <<>>
  /\ err = ErrNoMessages
  /\ agent = "A"
  /\ SessionUsed

IsBeforeRunEvent(e) == e.op = "OnBeforeRun"

\* C18: in a run given messages, the OnBeforeRun hook of the agent passed to
\* Run is the first thing called and is called once (never, if the agent has
\* none, and never for an agent handed off to); a run that ends having called
\* nothing but the hook returns no Result and the hook's error wrapped as
\* "OnBeforeRun hook failed", with the store as it was.
C18_OnBeforeRunFirstAndOnce ==
  (pc # "idle" /\ supplied # <<>>) =>
     /\ SelectSeq(events, IsBeforeRunEvent) = HookEvents(agent)
     /\ HasOnBeforeRun(agent) => events[1] = Event("OnBeforeRun", agent)
     /\ (pc = "done" /\ events = <<Event("OnBeforeRun", agent)>>) =>
          /\ err = [type |-> "wrapped", msg |-> "OnBeforeRun hook failed", inner |-> HookError]
          /\ result.isNil
          /\ StoredNow = storedBefore.list

C18_Witness ==
  /\ pc = "done"
  /\ err.type = "wrapped"
  /\ err.msg = "OnBeforeRun hook failed"
  /\ events = <<Event("OnBeforeRun", agent)>>
  /\ Len(supplied) = 2
  /\ SessionUsed

IsOutputTripwire == err.type = "guardrail.OutputGuardrailTripwireError"

AfterRunFailed == err.type = "wrapped" /\ err.msg = "OnAfterRun hook failed"

\* An error returned by an output guardrail itself.
OutputGuardrailFailed ==
  err.type = "wrapped" /\ err.inner = GuardrailError /\ OutputEvents # <<>>

\* C19: a finished run returns a Result together with an error exactly when
\* the error is an output-guardrail tripwire, a failed session save or a
\* failed OnAfterRun hook; without error it returns a Result.
C19_ResultWithErrorThreeCases ==
  pc = "done" =>
    IF IsNil(err) THEN ~result.isNil
    ELSE ~result.isNil <=> (IsOutputTripwire \/ SaveFailed \/ AfterRunFailed)

\* C19 as the code has it: the error of an output guardrail itself
\* ("guardrail '<name>' failed") is a fourth case in which the Result
\* comes back with the error.
C19_ResultWithErrorFourCases ==
  pc = "done" =>
    IF IsNil(err) THEN ~result.isNil /\ result = MakeResult
    ELSE ~result.isNil
           <=> (IsOutputTripwire \/ OutputGuardrailFailed \/ SaveFailed \/ AfterRunFailed)

C19_Witness ==
  /\ pc = "done"
  /\ OutputGuardrailFailed
  /\ ~result.isNil
  /\ result.FinalOutput = "hi"

\* errors.Is(e, target), for errors wrapped by fmt.Errorf.
RECURSIVE Is(_, _)
Is(e, target) == e = target \/ (e.type = "wrapped" /\ Is(e.inner, target))

\* C20: a run that ends because the deadline of config.Timeout has expired
\* returns an error that matches ErrTimeout, a run that ends because the
\* caller cancelled returns one that does not, and neither error matches
\* ErrMaxTurnsExceeded.
C20_DeadlineMatchesErrTimeout ==
  (pc = "done" /\ ctxErr # "nil") =>
     /\ (ctxErr = "DeadlineExceeded" /\ config.Timeout > 0) => Is(err, ErrTimeout)
     /\ ctxErr = "Canceled" => ~Is(err, ErrTimeout)
     /\ ~Is(err, ErrMaxTurnsExceeded)

(***************************************************************************)
(* Properties of RunConfig.Merge and of the settings of a request.         *)
(***************************************************************************)
\* The value of a field after a merge or in a request: the overriding one
\* when it is set, the other one otherwise.
Preferred(isSet, over, under) == IF isSet THEN over ELSE under

\* C21: Merge returns, field by field, the override's value exactly when it
\* is set (MaxTurns > 0, Timeout > 0, Debug true, a non-nil pointer) and the
\* base's value otherwise; base and override are left as they were, and
\* Merge(nil) yields the base values.
C21_MergeFieldByField ==
  ret.op = "Merge" =>
    LET b == call.before[call.c]
        r == mem[ret.ptr]
    IN /\ \A a \in DOMAIN call.before : a \in DOMAIN mem /\ mem[a] = call.before[a]
       /\ IF call.overrides = NilAddr
            THEN r = b
            ELSE LET o == call.before[call.overrides]
                 IN /\ r.MaxTurns = Preferred(o.MaxTurns > 0, o.MaxTurns, b.MaxTurns)
                    /\ r.Timeout = Preferred(o.Timeout > 0, o.Timeout, b.Timeout)
                    /\ r.Debug = Preferred(o.Debug, TRUE, b.Debug)
                    /\ r.Temperature =
                         Preferred(~o.Temperature.isNil, o.Temperature, b.Temperature)
                    /\ r.MaxTokens = Preferred(~o.MaxTokens.isNil, o.MaxTokens, b.MaxTokens)
                    /\ r.ParallelToolCalls =
                         Preferred(~o.ParallelToolCalls.isNil, o.ParallelToolCalls,
                                   b.ParallelToolCalls)
                    /\ r.ResponseFormat =
                         Preferred(~o.ResponseFormat.isNil, o.ResponseFormat,
                                   b.ResponseFormat)

\* A merge in which the override sets some fields (a pointer to zero among
\* them) and leaves others unset that the base has set.
C21_Witness ==
  /\ ret.op = "Merge"
  /\ call.overrides # NilAddr
  /\ LET b == call.before[call.c]
         o == call.before[call.overrides]
         r == mem[ret.ptr]
     IN /\ o.MaxTurns = 0 /\ b.MaxTurns = 10 /\ r.MaxTurns = 10
        /\ o.Timeout = 9 /\ b.Timeout = 5 /\ r.Timeout = 9
        /\ o.Temperature = NumPtr(0) /\ b.Temperature = NumPtr(7) /\ r.Temperature = NumPtr(0)
        /\ o.ParallelToolCalls = BoolPtr(FALSE) /\ b.ParallelToolCalls = BoolPtr(TRUE)
        /\ r.ParallelToolCalls = BoolPtr(FALSE)
        /\ ~o.Debug /\ b.Debug /\ r.Debug
        /\ o.ResponseFormat.isNil /\ r.ResponseFormat = TextFormat

PrepareDone == ret.op = "prepareRequest" /\ IsNil(ret.err)

\* Whether the parallel-tool-call hint of a request is the one the config
\* (when set) or else the agent asks for, sent only with tools and as false.
ParallelHintByPriority(ag, cfg, req) ==
  LET wanted == Preferred(~cfg.ParallelToolCalls.isNil, cfg.ParallelToolCalls.val,
                          ag.ParallelToolCalls)
  IN req.ParallelToolCalls =
       (IF Len(ag.Tools) > 0 /\ ~wanted THEN BoolPtr(FALSE) ELSE NilBool)

NumbersByPriority(ag, cfg, req) ==
  /\ req.Temperature = Preferred(~cfg.Temperature.isNil, cfg.Temperature, ag.Temperature)
  /\ req.MaxTokens = Preferred(~cfg.MaxTokens.isNil, cfg.MaxTokens, ag.MaxTokens)

PreferredFormat(ag, cfg) ==
  Preferred(~cfg.ResponseFormat.isNil, cfg.ResponseFormat, ag.ResponseFormat)

Supported(rf) ==
  \/ rf.Type = "text"
  \/ rf.Type = "json_schema" /\ ~rf.JSONSchema.isNil

AllReturned ==
  /\ DOMAIN goroutines = Goroutines
  /\ \A g \in Goroutines : goroutines[g].pc = "done"

\* What the call of goroutine record th returns and leaves behind when it
\* runs alone on the store ss, fs.
Sequential(th, ss, fs) ==
  IF backend = "memory"
    THEN CASE th.op = "Get" ->
                LET r == MemoryGet(ss, th.id)
                IN [sessions |-> ss, files |-> fs, got |-> r.messages, err |-> r.err]
           [] th.op = "Append" ->
                LET r == MemoryAppend(ss, th.id, th.msgs)
                IN [sessions |-> r.store, files |-> fs, got |-> <<>>, err |-> r.err]
           [] th.op = "Clear" ->
                LET r == MemoryClear(ss, th.id)
                IN [sessions |-> r.store, files |-> fs, got |-> <<>>, err |-> r.err]
           [] OTHER ->
                LET r == MemoryDelete(ss, th.id)
                IN [sessions |-> r.store, files |-> fs, got |-> <<>>, err |-> r.err]
    ELSE CASE th.op = "Get" ->
                LET r == FileGet(fs, AnyInstance, th.id, th.fault)
                IN [sessions |-> ss, files |-> fs, got |-> r.messages, err |-> r.err]
           [] th.op = "Append" ->
                LET r == FileAppend(fs, AnyInstance, th.id, th.msgs, th.fault)
                IN [sessions |-> ss, files |-> r.fs, got |-> <<>>, err |-> r.err]
           [] th.op = "Clear" ->
                LET r == FileClear(fs, AnyInstance, th.id, th.fault)
                IN [sessions |-> ss, files |-> r.fs, got |-> <<>>, err |-> r.err]
           [] OTHER ->
                LET r == FileDelete(fs, AnyInstance, th.id, th.fault)
                IN [sessions |-> ss, files |-> r.fs, got |-> <<>>, err |-> r.err]

\* Whether running the calls one after the other in the given order, from
\* the store ss, fs, returns what the goroutines got and ends in the
\* present store.
RECURSIVE Replayed(_, _, _, _)
Replayed(order, i, ss, fs) ==
  IF i > Len(order)
    THEN ss = sessions /\ fs = files
    ELSE LET th == goroutines[order[i]]
             r == Sequential(th, ss, fs)
         IN /\ r.got = th.got
            /\ r.err = th.err
            /\ Replayed(order, i + 1, r.sessions, r.files)

Orders ==
  {o \in [1..Cardinality(Goroutines) -> Goroutines] :
     \A i, j \in DOMAIN o : o[i] = o[j] => i = j}

Appended(g) == goroutines[g].op = "Append" /\ IsNil(goroutines[g].err)

IsSubSeqAt(list, part, i) ==
  i + Len(part) - 1 <= Len(list) /\ SubSeq(list, i, i + Len(part) - 1) = part

\* C23: when concurrent Get, Append, Clear and Delete calls on one store
\* instance have all returned, their results and the store are those of the
\* same calls made one after the other in some order; if only Gets and
\* Appends were made, every appended batch is in the stored list, contiguous
\* and in order.
C23_EquivalentToSequentialOrder ==
  AllReturned =>
    /\ \E order \in Orders : Replayed(order, 1, call.sessions, call.files)
    /\ (\A g \in Goroutines : goroutines[g].op \in {"Get", "Append"}) =>
         \A g \in Goroutines :
           Appended(g) =>
             \E i \in 1..(Len(Stored(sessions, files, backend, "s1")) + 1) :
               IsSubSeqAt(Stored(sessions, files, backend, "s1"), goroutines[g].msgs, i)

\* Two Appends and a Get on a FileSession holding one message: the Get saw
\* the batch of goroutine 2 and not that of goroutine 1, which is stored
\* after it.
C23_Witness ==
  /\ AllReturned
  /\ backend = "file"
  /\ Appended(1) /\ Appended(2)
  /\ goroutines[3].op = "Get" /\ IsNil(goroutines[3].err)
  /\ goroutines[3].got = <<UserMessage("u0")>> \o Batch(2)
  /\ Stored(sessions, files, backend, "s1") = <<UserMessage("u0")>> \o Batch(2) \o Batch(1)

\* The list goroutine g's Append or Clear is to store.
NewList(g) ==
  IF goroutines[g].op = "Append" THEN goroutines[g].before.list \o goroutines[g].msgs
                                 ELSE <<>>

Commits(g) == goroutines[g].op \in {"Append", "Clear"}

FailedAt(g, step) == goroutines[g].err = StorageError(goroutines[g].id, step)

\* Every session file holds a complete list, and a goroutine whose Append
\* or Clear has failed at the marshal, temp-write or rename step is about to
\* return a StorageError with the session (absent, or its list) as it was
\* when it took the lock and, after a failed rename, with no temporary file.
WholeOrUntouched ==
  /\ \A id \in SessionIDs :
       sessionPath(AnyInstance, id) \in DOMAIN files =>
         Unmarshal(files[sessionPath(AnyInstance, id)]).ok
  /\ \A g \in DOMAIN goroutines :
       (/\ goroutines[g].pc = "unlock"
        /\ \/ goroutines[g].op = "Append"
           \/ goroutines[g].op = "Clear" /\ goroutines[g].before.existed
        /\ goroutines[g].fault \in {"marshal", "write", "rename"}) =>
         /\ FailedAt(g, goroutines[g].fault)
         /\ Exists(sessions, files, backend, goroutines[g].id) = goroutines[g].before.existed
         /\ Stored(sessions, files, backend, goroutines[g].id) = goroutines[g].before.list
         /\ FailedAt(g, "rename") =>
              tempPath(AnyInstance, goroutines[g].id) \notin DOMAIN files

\* A step that creates a session file or changes its content is the rename
\* of a goroutine's Append or Clear, and puts the complete new list there.
CommitStep ==
  \A id \in SessionIDs :
    LET path == sessionPath(AnyInstance, id)
    IN (path \in DOMAIN files' /\ (path \notin DOMAIN files \/ files'[path] # files[path])) =>
         \E g \in DOMAIN goroutines :
           /\ Commits(g) /\ goroutines[g].id = id
           /\ goroutines[g].pc = "rename" /\ goroutines'[g].pc = "unlock"
           /\ IsNil(goroutines'[g].err)
           /\ Unmarshal(files'[path]).ok
           /\ Unmarshal(files'[path]).slice.items = NewList(g)
           /\ tempPath(AnyInstance, id) \notin DOMAIN files'

\* C24: a FileSession Append or Clear commits by writing the whole new list
\* to a temporary file and renaming it over the session file: at every
\* point, a failure at the marshal, temp-write or rename step included, the
\* session file holds the complete previous list or the complete new one;
\* after a failed rename the temporary file is gone, the session file is
\* unchanged and a StorageError is returned.
C24_CommitIsAtomic == []WholeOrUntouched /\ [][CommitStep]_vars

\* An Append to an existing session whose rename has failed.
C24_Witness ==
  /\ DOMAIN goroutines = Goroutines
  /\ \E g \in Goroutines :
       /\ goroutines[g].op = "Append" /\ goroutines[g].pc = "unlock"
       /\ FailedAt(g, "rename")
       /\ goroutines[g].before.list = <<UserMessage("u0")>>
       /\ Stored(sessions, files, backend, "s1") = <<UserMessage("u0")>>
       /\ tempPath(AnyInstance, "s1") \notin DOMAIN files

(***************************************************************************)
(* Properties of the lists MemorySession.Get returns.                      *)
(***************************************************************************)
StoredElems == IF "s1" \in DOMAIN sessions THEN Elems(mem, sessions["s1"]) ELSE <<>>

CallerStep == opLog' # opLog /\ opLog'[Len(opLog')] \in {"replace", "reorder", "append"}

StoreAppendStep == opLog' # opLog /\ opLog'[Len(opLog')] = "Append"

\* C25: the list Get returns is a copy.  A step in which the caller replaces,
\* swaps or appends elements of a returned list leaves the list under the
\* id, hence what a later Get returns, as it was; an Append to the store
\* leaves every list returned earlier as it was; and a Get returns the
\* elements stored.
C25_GetReturnsCopy ==
  [][/\ CallerStep =>
          /\ "s1" \in DOMAIN sessions'
          /\ Elems(mem', sessions'["s1"]) = Elems(mem, sessions["s1"])
     /\ StoreAppendStep =>
          \A k \in DOMAIN ret : Elems(mem', ret'[k]) = Elems(mem, ret[k])
     /\ Len(ret') > Len(ret) =>
          Elems(mem', ret'[Len(ret')]) = Elems(mem, sessions["s1"])]_vars

\* The caller holds a list returned by Get with an element replaced, the
\* store has appended in place since, and the two lists differ.
C25_Witness ==
  /\ Len(ret) > 0
  /\ \E k \in DOMAIN ret :
       /\ \E i \in 1..ret[k].len : mem[ret[k].arr][i] = "x"
       /\ "s1" \in DOMAIN sessions
       /\ sessions["s1"].len = 4 /\ sessions["s1"].cap = 4
       /\ StoredElems = <<"u1", "u2", "u3", "v1">>

(***************************************************************************)
(* Properties of the Steps of a Result and of tool-call identifiers.       *)
(***************************************************************************)
Names(toolCalls) == [j \in DOMAIN toolCalls |-> toolCalls[j].Name]

ToolNames(recorded) == [j \in DOMAIN recorded |-> recorded[j].ToolName]

\* C26: the Steps of a Result are one per completion-service call, in call
\* order (the i-th Step records the tool calls the i-th reply asked for),
\* with StepNumber i at position i and, as AgentName, the agent on whose
\* behalf the i-th call was made, which is the agent then in charge.
C26_OneStepPerCall ==
  ~result.isNil =>
    /\ Len(result.Steps) = Len(CompletionEvents)
    /\ \A i \in DOMAIN result.Steps :
         /\ result.Steps[i].StepNumber = i
         /\ result.Steps[i].AgentName = CompletionEvents[i].name
         /\ result.Steps[i].AgentName = ActiveAfter(i - 1)
         /\ ToolNames(result.Steps[i].ToolCalls) =
              Names(result.Messages[StepStart(i)].toolCalls)

\* A Result of two Steps, the first of the agent passed to Run and with a
\* handoff, the second of the agent handed off to.
C26_Witness ==
  /\ ~result.isNil
  /\ Len(result.Steps) = 2
  /\ result.Steps[1].AgentName = "A" /\ result.Steps[2].AgentName = "B"
  /\ result.Steps[2].StepNumber = 2
  /\ Len(result.Steps[1].ToolCalls) > 0

\* C27: every tool-call identifier in history has at most IDLimit
\* characters, an identifier the service sent with more being cut to its
\* first IDLimit characters; the identifier of each tool message is that of
\* its tool call in the assistant message recorded before it.
C27_IdentifiersCut ==
  /\ \A k \in DOMAIN history :
       /\ history[k].toolCallID.len <= IDLimit
       /\ \A j \in DOMAIN history[k].toolCalls :
            /\ history[k].toolCalls[j].ID.len <= IDLimit
            /\ \E id \in {ShortID, LongID} :
                 history[k].toolCalls[j].ID =
                   [head |-> id.head, tail |-> "",
                    len |-> IF id.len > IDLimit THEN IDLimit ELSE id.len]
  /\ \A c \in RecordedCalls :
       /\ ToolOutput(c).role = "tool"
       /\ ToolOutput(c).toolCallID = history[StepStart(c[1])].toolCalls[c[2]].ID

\* History holds an assistant message with a tool call whose identifier was
\* cut, and the tool message answering it.
C27_Witness ==
  \E c \in RecordedCalls :
    /\ history[StepStart(c[1])].toolCalls[c[2]].ID.len = IDLimit
    /\ history[StepStart(c[1])].toolCalls[c[2]].ID.head = LongID.head
    /\ ToolOutput(c).toolCallID.len = IDLimit

(***************************************************************************)
(* Runs of an agent without tools.                                         *)
(***************************************************************************)
\* The first reply of the run as recorded in history, after the messages
\* the loop started from.
FirstReplied == Len(history) > Len(messages) /\ pc # "idle"

FirstReply == history[Len(messages) + 1]

C29_RunNeverPanics ==
  /\ pc # "panicked"
  /\ (pc = "done" /\ result.isNil) => ~IsNil(err)

(***************************************************************************)
(* The context variables of a run.                                         *)
(***************************************************************************)
\* The tools called before the i-th tool invocation of the run.
CalledBefore(i) == [j \in 1..(i - 1) |-> ctxLog[j].tool]

\* C30: every tool invocation of a run is passed the same context-variable
\* store, the caller's when the caller passed one and otherwise one made
\* empty at the start of the run, and finds in it what the caller put there
\* followed by what every earlier tool invocation of the run wrote.
C30_OneContextStore ==
  \A i \in DOMAIN ctxLog :
    /\ ctxLog[i].store = (IF contextArg = NilContext THEN "run" ELSE contextArg.store)
    /\ ctxLog[i].read = contextArg.vars \o CalledBefore(i)
    /\ contextParams.store = ctxLog[i].store

\* A run on the caller's store in which the handoff tool of A is called in
\* one turn and the tool of B in the next, which reads what the first wrote.
C30_Witness ==
  /\ contextArg = CallerContext
  /\ Len(ctxLog) >= 2
  /\ ctxLog[1].tool = "toB"
  /\ ctxLog[2].tool = "toA"
  /\ ctxLog[2].read = <<"caller", "toB">>
  /\ Len(steps) >= 2

\* A run without a caller's store in which two tools are called.
C30_FreshStoreShared ==
  /\ contextArg = NilContext
  /\ Len(ctxLog) >= 2
  /\ ctxLog[2].store = "run"
  /\ ctxLog[2].read = <<ctxLog[1].tool>>

(***************************************************************************)
(* Properties of the built-in validators.                                  *)
(***************************************************************************)
MatchDone == call.op = "matchesPattern" /\ ret # NoCall

\* Whether pattern is "*." followed by the domain d.
IsWildcardOf(pattern, d) == pattern = <<"*", ".">> \o d

\* Whether host is a subdomain of d: something followed by "." and d.
IsSubdomainOf(host, d) == \E label \in Strings : host = label \o <<".">> \o d

\* C31: a host matches a pattern exactly when it equals the pattern or the
\* pattern is "*." followed by a domain d and the host is d or ends with "."
\* followed by d; a host that ends with d without a dot before it is not
\* matched by the wildcard.
C31_WildcardMatchesDomainAndSubdomains ==
  MatchDone =>
    /\ ret.matched <=>
         \/ call.urlHost = call.pattern
         \/ \E d \in Strings :
              /\ IsWildcardOf(call.pattern, d)
              /\ call.urlHost = d \/ IsSubdomainOf(call.urlHost, d)
    /\ \A d \in Strings :
         (/\ IsWildcardOf(call.pattern, d)
          /\ HasSuffix(call.urlHost, d)
          /\ call.urlHost # d /\ call.urlHost # call.pattern
          /\ ~HasSuffix(call.urlHost, <<".">> \o d)) => ~ret.matched

\* The wildcard of a domain has been compared with a host that ends with the
\* domain without a dot before it, and did not match.
C31_Witness ==
  /\ MatchDone
  /\ call.pattern = <<"*", ".", "a">>
  /\ call.urlHost = NotExampleCom
  /\ ~ret.matched

ValidatorDone ==
  call.op \in {"pii_detection", "url_filter", "regex_validation"} /\ ret # NoCall

\* The tripwire option a validator was made with: what the last option that
\* sets it says, and on when no option sets it.
TripwireOption(opts) ==
  LET setting == {i \in DOMAIN opts : opts[i].field = "Tripwire"}
  IN IF setting = {} THEN TRUE
     ELSE opts[CHOOSE i \in setting : \A j \in setting : j <= i].val.bool

\* C32: the Result of the PII, URL-filter and regex validators has
\* TripwireTriggered exactly when Passed is false and the tripwire option
\* of the validator is on; the option is on when it was not given; a
\* passing Result does not have TripwireTriggered.
C32_TripwireIffFailedAndOn ==
  ValidatorDone =>
    LET r == ret.result
    IN /\ r.TripwireTriggered <=> (~r.Passed /\ TripwireOption(call.opts))
       /\ (\A i \in DOMAIN call.opts : call.opts[i].field # "Tripwire") =>
            (r.TripwireTriggered <=> ~r.Passed)
       /\ r.Passed => ~r.TripwireTriggered

\* The URL filter, made advisory, has found a blocked host: the Result
\* fails without a tripwire.
C32_Witness ==
  /\ ValidatorDone
  /\ call.op = "url_filter"
  /\ ~TripwireOption(call.opts)
  /\ ~ret.result.Passed
  /\ ~ret.result.TripwireTriggered

(***************************************************************************)
(* Isolation of sessions.                                                  *)
(***************************************************************************)
\* What Get returns for id in a state of the store.
GetOf(ss, fs, id) == <<Exists(ss, fs, backend, id), Stored(ss, fs, backend, id)>>

\* A step that is an Append, Clear or Delete on id.
ChangeOf(id) ==
  /\ opLog' # opLog
  /\ opLog'[Len(opLog')].op \in {"Append", "Clear", "Delete"}
  /\ opLog'[Len(opLog')].id = id

\* C33: an Append, Clear or Delete on one identifier leaves what Get returns
\* for every other identifier as it was, in both backends.
C33_SessionsIsolated ==
  [][\A a \in setup.ids, b \in setup.ids :
       (a # b /\ ChangeOf(a)) =>
         GetOf(sessions', files', b) = GetOf(sessions, files, b)]_vars

(***************************************************************************)
(* The context at the top of a turn.                                       *)
(***************************************************************************)
\* C34: a turn at whose top the context is done, be it since before Run was
\* called, ends the run there: Run returns an error and no Result, and the
\* turn makes no completion-service call and executes no tool; when the
\* turn limit is reached as well, the error is ErrMaxTurnsExceeded.
C34_DoneContextEndsRunAtTurnTop ==
  [][(pc = "turn" /\ ctxDone' # "nil") =>
       /\ pc' = "done"
       /\ result'.isNil
       /\ ~IsNil(err')
       /\ events' = events /\ calls' = calls /\ nCalls' = nCalls
       /\ ctxLog' = ctxLog /\ steps' = steps /\ history' = history
       /\ IF config.MaxTurns > 0 /\ turnCount >= config.MaxTurns
            THEN err' = ErrMaxTurnsExceeded
            ELSE err' \in {ErrTimeout, ContextError(ctxDone')}]_vars

\* A run ended at the top of a turn at which the turn limit was reached and
\* the context was cancelled.
C34_Witness ==
  /\ pc = "done"
  /\ ctxDone = "Canceled"
  /\ config.MaxTurns > 0 /\ turnCount >= config.MaxTurns
  /\ err = ErrMaxTurnsExceeded
  /\ result.isNil

\* A run on a context cancelled before Run was called, ended at the top of
\* its first turn.
C34_CancelledBeforeRun ==
  /\ pc = "done"
  /\ ctxDone = "Canceled"
  /\ turnCount = 0
  /\ ~NoMessages(supplied)
  /\ err = ContextError("Canceled")
  /\ CompletionEvents = <<>>

(***************************************************************************)
(* Handoffs within one reply.                                              *)
(***************************************************************************)
\* The positions of the tool calls of a step that returned an Agent.
HandoffsIn(recorded) == {j \in DOMAIN recorded : recorded[j].Result.kind = "agent"}

\* The agent in charge after a step of agent a with these tool calls.
AgentAfter(a, recorded) ==
  IF HandoffsIn(recorded) = {} THEN a
  ELSE recorded[CHOOSE j \in HandoffsIn(recorded) :
                  \A k \in HandoffsIn(recorded) : k <= j].Result.val

\* C35: every tool call of a reply is looked up in the tools of the agent
\* the turn was started for, also a call that follows one that returned an
\* Agent; the agent of the next turn is the Agent returned by the last call
\* of the reply that returned one, or the same agent when none did.
C35_HandoffTakesEffectNextTurn ==
  \A i \in DOMAIN steps :
    LET a == steps[i].AgentName
        recorded == steps[i].ToolCalls
    IN /\ CompletionEvents[i].name = a
       /\ \A j \in DOMAIN recorded :
            (recorded[j].Error = "tool not found") <=> (recorded[j].ToolName \notin ToolMap(a))
       /\ i < Len(steps) => steps[i + 1].AgentName = AgentAfter(a, recorded)
       /\ (i = Len(steps) /\ pc \in {"turn", "call"}) =>
            currentAgent = AgentAfter(a, recorded)

\* A reply to agent D whose two tool calls both returned an Agent, B and
\* then A: the next turn is A's.
C35_Witness ==
  /\ Len(steps) >= 2
  /\ steps[1].AgentName = "D"
  /\ Len(steps[1].ToolCalls) = 2
  /\ HandoffsIn(steps[1].ToolCalls) = {1, 2}
  /\ steps[1].ToolCalls[1].Result.val = "B"
  /\ steps[2].AgentName = "A"

\* The same reply to agent A: the second tool is one of B, to which the
\* first call handed off, and is not found.
C35_CallAfterHandoffNotFound ==
  /\ Len(steps) >= 1
  /\ steps[1].AgentName = "A"
  /\ Len(steps[1].ToolCalls) = 2
  /\ steps[1].ToolCalls[1].Result = [kind |-> "agent", val |-> "B"]
  /\ steps[1].ToolCalls[2].ToolName = "toA"
  /\ steps[1].ToolCalls[2].Error = "tool not found"
  /\ pc = "turn" /\ currentAgent = "B"

(***************************************************************************)
(* The steps after the loop.                                               *)
(***************************************************************************)
EventsAt(op) == {i \in DOMAIN events : events[i].op = op}

Before(earlier, later) == \A i \in earlier, j \in later : i < j

\* The order of the calls made after the loop, each made at most once.
PostLoopOrder ==
  /\ Before(EventsAt("Completions.New"), EventsAt("output_guardrail"))
  /\ Before(EventsAt("output_guardrail"), EventsAt("Append"))
  /\ Before(EventsAt("output_guardrail"), EventsAt("OnAfterRun"))
  /\ Before(EventsAt("Append"), EventsAt("OnAfterRun"))
  /\ Cardinality(EventsAt("Append")) <= 1
  /\ Cardinality(EventsAt("OnAfterRun")) <= 1

\* What a failure after the loop leaves undone, and what OnAfterRun follows.
PostLoopStops ==
  /\ (pc = "done" /\ (IsOutputTripwire \/ OutputGuardrailFailed)) =>
       /\ EventsAt("Append") = {} /\ EventsAt("OnAfterRun") = {}
       /\ SessionUsed => /\ StoredNow = storedBefore.list
                         /\ Exists(sessions, files, backend, sessionID) = storedBefore.existed
  /\ (pc = "done" /\ SaveFailed) => EventsAt("OnAfterRun") = {}
  /\ EventsAt("OnAfterRun") # {} =>
       IF SessionUsed
         THEN EventsAt("Append") # {} /\ StoredNow = storedBefore.list \o history
         ELSE EventsAt("Append") = {}

\* The step of the output guardrails ends the run when one of them fails or
\* has TripwireTriggered, and the step of the save when the Append failed.
PostLoopStep ==
  /\ (pc = "output" /\ \E i \in DOMAIN verdicts' : verdicts'[i].failed \/ Halts(verdicts'[i]))
       => (pc' = "done" /\ sessions' = sessions /\ files' = files)
  /\ (pc = "save" /\ SessionUsed
        /\ Stored(sessions', files', backend, sessionID) # storedBefore.list \o history)
       => (pc' = "done" /\ ~IsNil(err'))

\* C36: after the loop Run calls the output guardrails, then the session
\* Append, then OnAfterRun, and stops at the first that fails: after an
\* output guardrail that trips or fails nothing is appended and OnAfterRun
\* is not called, after a failed Append OnAfterRun is not called, and
\* OnAfterRun is called at most once, after the Append has succeeded or
\* when no session is used.
C36_PostLoopOrder == [](PostLoopOrder /\ PostLoopStops) /\ [][PostLoopStep]_vars

\* A run with a session whose output guardrail, Append and OnAfterRun were
\* all called, in this order.
C36_Witness ==
  /\ pc = "done"
  /\ SessionUsed
  /\ EventsAt("output_guardrail") # {}
  /\ EventsAt("Append") # {}
  /\ EventsAt("OnAfterRun") # {}
  /\ IsNil(err)

\* A run with a session ended by a failed Append, and one ended by an output
\* guardrail.
C36_StoppedAtSave ==
  pc = "done" /\ SaveFailed /\ EventsAt("output_guardrail") # {}

C36_StoppedAtOutputGuardrail ==
  pc = "done" /\ SessionUsed /\ (IsOutputTripwire \/ OutputGuardrailFailed)

\* A run that returned no Result: it ended before or inside the loop.
Aborted == pc = "done" /\ result.isNil

\* The steps of Run before the session Append leave every stored session
\* as it is.
StoreUntouched == pc # "save" => UNCHANGED <<sessions, files>>

\* C37: a run that ends before or inside the loop (empty input, before-hook
\* error, input guardrail, session load error, max turns, context done,
\* request assembly error, provider error) never calls the session Append,
\* and what is stored under its session ID is what was stored when the run
\* started, also after tools ran and messages accumulated in earlier turns.
C37_AbortLeavesSessionUnchanged ==
  /\ [](Aborted =>
          /\ EventsAt("Append") = {}
          /\ SessionUsed =>
               /\ Exists(sessions, files, backend, sessionID) = storedBefore.existed
               /\ storedBefore.existed => StoredNow = storedBefore.list)
  /\ [][StoreUntouched]_vars

\* A run on a stored session that executed a tool in its first turn and was
\* then ended by the turn limit.
C37_Witness ==
  /\ Aborted
  /\ err = ErrMaxTurnsExceeded
  /\ SessionUsed
  /\ storedBefore.existed
  /\ storedBefore.list # <<>>
  /\ Len(steps) >= 1
  /\ steps[1].ToolCalls # <<>>
  /\ Len(history) > Len(storedBefore.list) + Len(supplied)

\* Runs with a session ended by a request assembly error, by a session load
\* error and by a provider error after a turn with tools.
C37_RequestErrorAbort ==
  Aborted /\ SessionUsed /\ turnCount >= 1 /\ err = RequestError(currentAgent, config)
  /\ ~IsNil(err)

C37_LoadErrorAbort ==
  Aborted /\ SessionUsed /\ err.type = "wrapped" /\ err.msg = "failed to load session"

C37_ProviderErrorAbort ==
  Aborted /\ SessionUsed /\ Len(steps) >= 1 /\ err.type = "wrapped"
  /\ err.msg = "LLM call failed"

\* The assistant reply of step i in history, and the tool calls it requests.
Reply(i) == history[StepStart(i)]

Requested(i) == Reply(i).toolCalls

\* The names of the tools executed in steps 1..i, in the order of their
\* ToolCall records: every recorded call but those of a missing tool.
RECURSIVE ExecutedUpTo(_)
ExecutedUpTo(i) ==
  IF i = 0 THEN <<>>
  ELSE ExecutedUpTo(i - 1)
       \o [n \in DOMAIN SelectSeq(steps[i].ToolCalls, LAMBDA tc : tc.Error # "tool not found")
             |-> SelectSeq(steps[i].ToolCalls, LAMBDA tc : tc.Error # "tool not found")[n].ToolName]

ToolEvents == SelectSeq(events, LAMBDA e : e.op = "tool")

InLoop == pc \in {"turn", "call", "output", "save", "after"}

\* C38: the k tool calls a reply requests are executed in the order
\* requested and leave k ToolCall records and k tool messages in that order,
\* whatever the outcome of each (success, failure, missing tool, handoff);
\* history, and Result.Messages, is the initial history followed turn by
\* turn by the assistant reply and its k tool messages.
C38_ToolCallsInOrder ==
  (InLoop \/ (pc = "done" /\ ~result.isNil)) =>
    /\ SubSeq(history, 1, Len(loaded) + Len(supplied)) = loaded \o supplied
    /\ Len(history) = StepStart(Len(steps) + 1) - 1
    /\ \A i \in DOMAIN steps :
         /\ Reply(i).role = "assistant"
         /\ Len(steps[i].ToolCalls) = Len(Requested(i))
         /\ \A j \in DOMAIN Requested(i) :
              /\ steps[i].ToolCalls[j].ToolName = Requested(i)[j].Name
              /\ steps[i].ToolCalls[j].Arguments = Requested(i)[j].Arguments
              /\ history[StepStart(i) + j].role = "tool"
              /\ history[StepStart(i) + j].toolCallID = Requested(i)[j].ID
    /\ [n \in DOMAIN ToolEvents |-> ToolEvents[n].name] = ExecutedUpTo(Len(steps))
    /\ ~result.isNil => result.Messages = history

\* A returned run whose first reply requested two tool calls, a handoff and
\* then a call that failed, and whose second reply ended the loop.
C38_Witness ==
  /\ pc = "done"
  /\ ~result.isNil
  /\ Len(steps) >= 2
  /\ Len(steps[1].ToolCalls) = 2
  /\ steps[1].ToolCalls[1].Result.kind = "agent"
  /\ steps[1].ToolCalls[2].Error # ""

InputGuardrailNames == {events[i].name : i \in EventsAt("input_guardrail")}

HookNames == {events[i].name : i \in EventsAt("OnBeforeRun") \cup EventsAt("OnAfterRun")}

\* C39: the hooks and input guardrails of a run are those of the agent
\* passed to Run: whatever the handoffs, only that agent's OnBeforeRun,
\* OnAfterRun and input guardrails are called, and a run that returns
\* without error has called its OnAfterRun when it has one, also when
\* another agent is in charge at the end.
C39_HooksOfTheAgentPassed ==
  pc \notin {"idle"} =>
    /\ HookNames \subseteq {agent}
    /\ InputGuardrailNames \subseteq {InputGuardrails(agent)[i] : i \in DOMAIN InputGuardrails(agent)}
    /\ (pc = "done" /\ ~result.isNil /\ HasOnAfterRun(agent)
        /\ (IsNil(err) \/ (err.type = "wrapped" /\ err.msg = "OnAfterRun hook failed")))
         => (\E i \in EventsAt("OnAfterRun") : events[i].name = agent)
    /\ (pc = "done" /\ ~HasOnAfterRun(agent)) => EventsAt("OnAfterRun") = {}

\* A run of A that handed off to B and returned after A's OnAfterRun.
C39_Witness ==
  /\ pc = "done"
  /\ ~result.isNil
  /\ agent = "A"
  /\ result.Agent = "B"
  /\ IsNil(err)
  /\ \E i \in EventsAt("OnAfterRun") : events[i].name = "A"

\* A run of B that handed off to A, which has hooks and input guardrails,
\* and returned without any of them called.
C39_TargetHooksNotCalled ==
  /\ pc = "done"
  /\ ~result.isNil
  /\ agent = "B"
  /\ result.Agent = "A"
  /\ HookNames = {}
  /\ InputGuardrailNames = {}

\* The completion calls the run in progress can still make under its turn
\* limit are within the calls left to the model.
CallsLeft == (config.MaxTurns - turnCount) + (IF pc = "call" THEN 1 ELSE 0)

WithinCalls == nCalls + CallsLeft <= MaxCalls

Running == pc \in {"guardrails", "load", "turn", "call", "output", "save", "after"}

\* C40: with MaxTurns = N > 0 and every hook, guardrail, completion call,
\* tool callback and session operation returning, a run returns to its
\* caller, with a Result or an error, and has made at most N turns by then,
\* whatever the replies and the handoffs, cycles between two agents included.
C40_RunReturns ==
  /\ [](Running => (config.MaxTurns > 0 /\ turnCount <= config.MaxTurns))
  /\ (Running /\ WithinCalls) ~> (pc = "done" /\ turnCount <= config.MaxTurns)

\* A run of B under MaxTurns = 2 whose two replies handed off to A and back
\* to B, ended by the turn limit.
C40_Witness ==
  /\ pc = "done"
  /\ agent = "B"
  /\ config.MaxTurns = 2
  /\ Len(steps) = 2
  /\ steps[1].ToolCalls # <<>> /\ steps[1].ToolCalls[1].Result = [kind |-> "agent", val |-> "A"]
  /\ steps[2].ToolCalls # <<>> /\ steps[2].ToolCalls[1].Result = [kind |-> "agent", val |-> "B"]
  /\ currentAgent = "B"
  /\ err = ErrMaxTurnsExceeded

====
